---- MODULE Spec2Model ----
(***************************************************************************)
(* Model of the query-plan core of sql_query_plan_visualizer:              *)
(*   src/src/utils/parser.ts  (parseExplainJSON, validateExplainJSON and   *)
(*   the helpers they call) over the input types of src/unnamed/part_003.  *)
(*   src/src/components/CommandCenter.tsx  (the handlers of the input      *)
(*   form that feeds validateExplainJSON).                                 *)
(*                                                                         *)
(* Representation of JavaScript values                                     *)
(*   - an optional field  f?: T  is a sequence of length 0 (absent,        *)
(*     undefined) or 1 (present): <<>> or <<v>>;                           *)
(*   - a decimal string that the code hands to parseFloat is a sequence of *)
(*     one-character strings, <<"1", ".", "5", "0">>;                      *)
(*   - a JavaScript number is a record [nan, v]: NaN, or the value v in    *)
(*     hundredths (fixed point, Scale = 100), so "10.50" parses to 1050;   *)
(*   - a node id is the string the code builds, "node-<n>", and an absent  *)
(*     parentId (undefined) is the empty string: both are falsy in the     *)
(*     code's `if (parentId)`.                                             *)
(* rawData is an opaque snapshot the core never reads and is left out.     *)
(***************************************************************************)
EXTENDS Integers, Sequences, FiniteSets, TLC

(***************************************************************************)
(* JavaScript numbers, truthiness and parseFloat                           *)
(***************************************************************************)
Scale == 100

Num(v) == [nan |-> FALSE, v |-> v]

NaN == [nan |-> TRUE, v |-> 0]

Zero == Num(0)

\* a + b
JsAdd(a, b) == IF a.nan \/ b.nan THEN NaN ELSE Num(a.v + b.v)

\* a * b on row estimates (integers, not scaled)
JsMulInt(a, b) == a * b

\* Math.max(a, b): NaN if either argument is NaN
JsMax2(a, b) == IF a.nan \/ b.nan THEN NaN ELSE IF a.v >= b.v THEN a ELSE b

\* n || 0 on a number: 0 and NaN are falsy
NumOrZero(n) == IF n.nan \/ n.v = 0 THEN Zero ELSE n

\* truthiness of an optional string held as a TLA+ string (label, message, name)
TruthyStr(o) == o # <<>> /\ o[1] # ""

\* truthiness of an optional decimal string (sequence of characters)
TruthyChars(o) == o # <<>> /\ o[1] # <<>>

\* truthiness of an optional integer
TruthyInt(o) == o # <<>> /\ o[1] # 0

Digits == {"0", "1", "2", "3", "4", "5", "6", "7", "8", "9"}

DigitVal(c) == CHOOSE d \in 0..9 : ToString(d) = c

\* the end (exclusive) of the run of digits of s that starts at position i
RECURSIVE DigitsEnd(_, _)
DigitsEnd(s, i) ==
  IF i <= Len(s) /\ s[i] \in Digits THEN DigitsEnd(s, i + 1) ELSE i

\* the integer written by the digits s[i..j-1]
RECURSIVE DigitsValue(_, _, _)
DigitsValue(s, i, j) ==
  IF j <= i THEN 0 ELSE DigitsValue(s, i, j - 1) * 10 + DigitVal(s[j - 1])

\* the end (exclusive) of the leading white space of s
RECURSIVE SkipSpace(_, _)
SkipSpace(s, i) == IF i <= Len(s) /\ s[i] = " " THEN SkipSpace(s, i + 1) ELSE i

\* the fraction digit s[i], 0 when the fraction ends before it
FractionDigit(s, i, p3) == IF p3 > i THEN DigitVal(s[i]) ELSE 0

\* the value of  digits s[p1..p2-1] [. digits s[p2+1..p3-1]]  in hundredths;
\* NaN when neither run holds a digit
FloatValue(s, neg, p1, p2, p3) ==
  IF ~(p2 > p1 \/ p3 > p2 + 1) THEN NaN
  ELSE Num((IF neg THEN 0 - 1 ELSE 1)
           * (DigitsValue(s, p1, p2) * Scale
              + FractionDigit(s, p2 + 1, p3) * (Scale \div 10)
              + FractionDigit(s, p2 + 2, p3) * (Scale \div 100)))

\* p2 is the end of the integer digits: a "." there starts the fraction
FloatFraction(s, neg, p1, p2) ==
  FloatValue(s, neg, p1, p2,
             IF p2 <= Len(s) /\ s[p2] = "." THEN DigitsEnd(s, p2 + 1) ELSE p2)

\* p0 is the end of the leading white space: an optional sign stands there
FloatSigned(s, p0) ==
  FloatFraction(s, p0 <= Len(s) /\ s[p0] = "-",
                IF p0 <= Len(s) /\ s[p0] \in {"-", "+"} THEN p0 + 1 ELSE p0,
                DigitsEnd(s, IF p0 <= Len(s) /\ s[p0] \in {"-", "+"}
                             THEN p0 + 1 ELSE p0))

\* parseFloat(s): the longest prefix  [ws] [+|-] digits [. digits]  or
\* [ws] [+|-] . digits ; NaN when there is none.  The result keeps two
\* decimals (hundredths); exponents and "Infinity" are outside the inputs used.
ParseFloat(s) == FloatSigned(s, SkipSpace(s, 1))

(***************************************************************************)
(* Node ids: generateId, parser.ts:12-16                                   *)
(***************************************************************************)
\* the id generateId returns when the counter, already incremented, is n
NodeId(n) == "node-" \o ToString(n)

\* parentId?: string left out by the caller
NoParent == ""

(***************************************************************************)
(* parseCost, parser.ts:18-22                                              *)
(***************************************************************************)
NoCostInfo ==
  [query_cost |-> <<>>, read_cost |-> <<>>, eval_cost |-> <<>>,
   prefix_cost |-> <<>>, sort_cost |-> <<>>]

\* FirstCost with the read cost looked at before the query cost
FirstCostReadFirst(ci) ==
  IF TruthyChars(ci.read_cost) THEN ci.read_cost
  ELSE IF TruthyChars(ci.query_cost) THEN ci.query_cost
  ELSE ci.prefix_cost

\* costInfo.query_cost || costInfo.read_cost || costInfo.prefix_cost
FirstCost(ci) ==
  IF TruthyChars(ci.query_cost) THEN ci.query_cost
  ELSE IF TruthyChars(ci.read_cost) THEN ci.read_cost
  ELSE ci.prefix_cost

parseCost(costInfo) ==
  IF costInfo = <<>> THEN Zero
  ELSE LET cost == FirstCost(costInfo[1])
       IN  IF TruthyChars(cost) THEN ParseFloat(cost[1]) ELSE Zero

(***************************************************************************)
(* getExtraInfo, parser.ts:24-32                                           *)
(***************************************************************************)
\* getExtraInfo with the filesort tag pushed before the temporary tag
getExtraInfoFilesortFirst(table) ==
  (IF table.using_index THEN <<"Using index">> ELSE <<>>)
  \o (IF table.using_filesort THEN <<"Using filesort">> ELSE <<>>)
  \o (IF table.using_temporary THEN <<"Using temporary">> ELSE <<>>)
  \o (IF TruthyStr(table.using_index_condition)
      THEN <<"Using index condition">> ELSE <<>>)
  \o (IF TruthyStr(table.message) THEN <<table.message[1]>> ELSE <<>>)

getExtraInfo(table) ==
  (IF table.using_index THEN <<"Using index">> ELSE <<>>)
  \o (IF table.using_temporary THEN <<"Using temporary">> ELSE <<>>)
  \o (IF table.using_filesort THEN <<"Using filesort">> ELSE <<>>)
  \o (IF TruthyStr(table.using_index_condition)
      THEN <<"Using index condition">> ELSE <<>>)
  \o (IF TruthyStr(table.message) THEN <<table.message[1]>> ELSE <<>>)

(***************************************************************************)
(* Plan nodes and results, part_003:120-138                                *)
(***************************************************************************)
\* a PlanNode that is not a table: the optional table fields stay undefined
OpNode(id, type, label, cost, rows, extra) ==
  [id |-> id, type |-> type, label |-> label, cost |-> cost, rows |-> rows,
   table |-> <<>>, accessType |-> <<>>, key |-> <<>>, keyParts |-> <<>>,
   condition |-> <<>>, extra |-> extra, children |-> <<>>,
   isCriticalPath |-> FALSE]

\* { nodes, edges } of one parser function, with nodeIdCounter as it leaves it
Result(nodes, edges, ctr) == [nodes |-> nodes, edges |-> edges, ctr |-> ctr]

Edge(source, target) == [source |-> source, target |-> target]

\* EdgeTo with source and target exchanged
EdgeToReversed(source, parentId) ==
  IF parentId # NoParent THEN <<Edge(parentId, source)>> ELSE <<>>

\* EdgeTo without its guard: an edge is pushed even when parentId is absent
EdgeToUnguarded(source, parentId) == <<Edge(source, parentId)>>

\* if (parentId) edges.push({ source, target: parentId })
EdgeTo(source, parentId) ==
  IF parentId # NoParent THEN <<Edge(source, parentId)>> ELSE <<>>

\* nodes.map(n => n.id)
IdsOf(nodes) == [i \in 1..Len(nodes) |-> nodes[i].id]

\* the tags the sort, group and distinct stages push from their own flags
StageExtra(op) ==
  (IF op.using_filesort THEN <<"Using filesort">> ELSE <<>>)
  \o (IF op.using_temporary_table THEN <<"Using temporary table">> ELSE <<>>)

RECURSIVE parseTable(_, _, _)
RECURSIVE parseNestedLoop(_, _, _)
RECURSIVE parseItems(_, _, _, _)
RECURSIVE parseQueryBlock(_, _, _, _)
RECURSIVE parseGroupingOperation(_, _, _)
RECURSIVE parseBufferResult(_, _, _)
RECURSIVE parseSpecifications(_, _, _, _)
RECURSIVE parseSubqueries(_, _, _, _)

\* nothing pushed yet, the counter at ctr
Empty(ctr) == Result(<<>>, <<>>, ctr)

\* nodes.push(...r.nodes); edges.push(...r.edges) onto what acc holds
Push(acc, r) == Result(acc.nodes \o r.nodes, acc.edges \o r.edges, r.ctr)

\* WithChildren with children = nodes.map(n => n.id): the ids of everything
\* pushed, the node itself included
WithChildrenOfAll(node, edges, below) ==
  Result(<<[node EXCEPT !.children = <<node.id>> \o IdsOf(below.nodes)]>>
           \o below.nodes,
         edges \o below.edges, below.ctr)

\* WithChildren with the node pushed after what was parsed below it
WithChildrenAfter(node, edges, below) ==
  Result(below.nodes \o <<[node EXCEPT !.children = IdsOf(below.nodes)]>>,
         edges \o below.edges, below.ctr)

\* node and its edges pushed first, then what was parsed below it, with
\* node.children = below.nodes.map(n => n.id)
WithChildren(node, edges, below) ==
  Result(<<[node EXCEPT !.children = IdsOf(below.nodes)]>> \o below.nodes,
         edges \o below.edges, below.ctr)

\* if (x.table) { const r = parseTable(x.table, parentId); push r }
AddTable(acc, table, parentId) ==
  IF table # <<>> THEN Push(acc, parseTable(table[1], parentId, acc.ctr))
  ELSE acc

\* if (x.nested_loop) { const r = parseNestedLoop(x.nested_loop, parentId); push r }
AddNestedLoop(acc, nested_loop, parentId) ==
  IF nested_loop # <<>>
  THEN Push(acc, parseNestedLoop(nested_loop[1], parentId, acc.ctr))
  ELSE acc

\* if (x.grouping_operation) { const r = parseGroupingOperation(...); push r }
AddGroupingOperation(acc, grouping_operation, parentId) ==
  IF grouping_operation # <<>>
  THEN Push(acc, parseGroupingOperation(grouping_operation, parentId, acc.ctr))
  ELSE acc

\* if (x.buffer_result) { const r = parseBufferResult(...); push r }
AddBufferResult(acc, buffer_result, parentId) ==
  IF buffer_result # <<>>
  THEN Push(acc, parseBufferResult(buffer_result, parentId, acc.ctr))
  ELSE acc

\* if (block.query_block) { const r = parseQueryBlock(block.query_block,
\* currentParent); push r }
AddQueryBlock(acc, query_block, parentId) ==
  IF query_block # <<>>
  THEN Push(acc, parseQueryBlock(query_block[1], parentId, "select", acc.ctr))
  ELSE acc

(***************************************************************************)
(* parseTable, parser.ts:34-70                                             *)
(***************************************************************************)
\* TableRows with the two estimates in the order the join node uses
TableRowsProducedFirst(table) ==
  IF TruthyInt(table.rows_produced_per_join)
  THEN table.rows_produced_per_join[1]
  ELSE IF TruthyInt(table.rows_examined_per_scan)
  THEN table.rows_examined_per_scan[1]
  ELSE 0

\* rows_examined_per_scan || rows_produced_per_join || 0
TableRows(table) ==
  IF TruthyInt(table.rows_examined_per_scan)
  THEN table.rows_examined_per_scan[1]
  ELSE IF TruthyInt(table.rows_produced_per_join)
  THEN table.rows_produced_per_join[1]
  ELSE 0

\* the node literal of parser.ts:39-53
TableNode(table, nodeId) ==
  [id |-> nodeId, type |-> "table",
   label |-> IF TruthyStr(table.table_name) THEN table.table_name[1]
             ELSE "Unknown Table",
   cost |-> parseCost(table.cost_info),
   rows |-> TableRows(table),
   table |-> table.table_name, accessType |-> table.access_type,
   key |-> table.key, keyParts |-> table.used_key_parts,
   condition |-> table.attached_condition,
   extra |-> getExtraInfo(table), children |-> <<>>,
   isCriticalPath |-> FALSE]

\* parser.ts:61-67: what the materialized subquery of the table yields below
\* the table node nodeId; nothing when the table has none
parseMaterialized(table, nodeId, ctr) ==
  IF table.materialized_from_subquery # <<>>
  THEN parseQueryBlock(table.materialized_from_subquery[1].query_block,
                       nodeId, "subquery", ctr)
  ELSE Empty(ctr)

parseTable(table, parentId, ctr) ==
  WithChildren(TableNode(table, NodeId(ctr + 1)),
               EdgeTo(NodeId(ctr + 1), parentId),
               parseMaterialized(table, NodeId(ctr + 1), ctr + 1))

(***************************************************************************)
(* parseNestedLoop, parser.ts:72-121                                       *)
(***************************************************************************)
\* rows_produced_per_join || rows_examined_per_scan || 0
ItemRows(table) ==
  IF TruthyInt(table.rows_produced_per_join)
  THEN table.rows_produced_per_join[1]
  ELSE IF TruthyInt(table.rows_examined_per_scan)
  THEN table.rows_examined_per_scan[1]
  ELSE 0

\* JoinCost that keeps only the last table's cost (sum = cost for sum += cost)
JoinCostLastOnly(items, n) ==
  IF n = 0 THEN Zero ELSE parseCost(items[n].table.cost_info)

\* items.reduce((sum, item) => sum + parseCost(item.table.cost_info), 0),
\* first n items
RECURSIVE JoinCost(_, _)
JoinCost(items, n) ==
  IF n = 0 THEN Zero
  ELSE JsAdd(JoinCost(items, n - 1), parseCost(items[n].table.cost_info))

\* sum === 0 ? rows : sum * rows
JoinRowsStep(sum, rows) == IF sum = 0 THEN rows ELSE JsMulInt(sum, rows)

\* items.reduce((sum, item) => sum === 0 ? rows : sum * rows, 0), first n items
RECURSIVE JoinRows(_, _)
JoinRows(items, n) ==
  IF n = 0 THEN 0
  ELSE JoinRowsStep(JoinRows(items, n - 1), ItemRows(items[n].table))

\* items.forEach(item => parseTable(item.table, joinId) ...), from item i on;
\* acc holds what the earlier items pushed
parseItems(items, i, joinId, acc) ==
  IF i > Len(items) THEN acc
  ELSE parseItems(items, i + 1, joinId,
                  Push(acc, parseTable(items[i].table, joinId, acc.ctr)))

\* the join node literal of parser.ts:90-98
JoinNode(items, joinId) ==
  OpNode(joinId, "join", "Nested Loop Join", JoinCost(items, Len(items)),
         JoinRows(items, Len(items)), <<>>)

\* parseNestedLoop with a join node over a single table too
parseNestedLoopAlwaysJoin(items, parentId, ctr) ==
  IF Len(items) = 0 THEN Empty(ctr)
  ELSE WithChildren(JoinNode(items, NodeId(ctr + 1)),
                    EdgeTo(NodeId(ctr + 1), parentId),
                    parseItems(items, 1, NodeId(ctr + 1), Empty(ctr + 1)))

\* parser.ts:72-121
parseNestedLoop(items, parentId, ctr) ==
  IF Len(items) = 0 THEN Empty(ctr)
  ELSE IF Len(items) > 1
  THEN WithChildren(JoinNode(items, NodeId(ctr + 1)),
                    EdgeTo(NodeId(ctr + 1), parentId),
                    parseItems(items, 1, NodeId(ctr + 1), Empty(ctr + 1)))
  ELSE parseTable(items[1].table, parentId, ctr)

(***************************************************************************)
(* parseQueryBlock, parser.ts:123-314                                      *)
(***************************************************************************)
\* specs.forEach(spec => parseQueryBlock(spec.query_block, unionId)), from i on
parseSpecifications(specs, i, unionId, acc) ==
  IF i > Len(specs) THEN acc
  ELSE parseSpecifications(specs, i + 1, unionId,
         Push(acc, parseQueryBlock(specs[i].query_block, unionId, "select",
                                   acc.ctr)))

\* allSubqueries.forEach(sub => parseQueryBlock(sub.query_block, currentParent,
\* 'subquery')), from i on
parseSubqueries(subs, i, currentParent, acc) ==
  IF i > Len(subs) THEN acc
  ELSE parseSubqueries(subs, i + 1, currentParent,
         Push(acc, parseQueryBlock(subs[i].query_block, currentParent,
                                   "subquery", acc.ctr)))

\* x || [] on an optional list
OrEmpty(opt) == IF opt # <<>> THEN opt[1] ELSE <<>>

\* the sort node literal of parser.ts:137-145 with the tags of 147-152
SortNode(op, sortId) ==
  OpNode(sortId, "sort", "ORDER BY", parseCost(op.cost_info), 0, StageExtra(op))

\* ParseOrdering that never moves currentParent to the sort node: what the
\* stage nests is attached to the incoming attachment point
ParseOrderingDetached(op, parentId, ctr) ==
  AddTable(
    AddGroupingOperation(
      WithChildren(SortNode(op, NodeId(ctr + 1)),
                   EdgeTo(NodeId(ctr + 1), parentId),
                   AddNestedLoop(Empty(ctr + 1), op.nested_loop, parentId)),
      op.grouping_operation, parentId),
    op.table, parentId)

\* parser.ts:134-181, the ordering_operation branch: the sort node, then its
\* nested_loop (the only part recorded in children), then its
\* grouping_operation, then its table
ParseOrdering(op, parentId, ctr) ==
  AddTable(
    AddGroupingOperation(
      WithChildren(SortNode(op, NodeId(ctr + 1)),
                   EdgeTo(NodeId(ctr + 1), parentId),
                   AddNestedLoop(Empty(ctr + 1), op.nested_loop,
                                 NodeId(ctr + 1))),
      op.grouping_operation, NodeId(ctr + 1)),
    op.table, NodeId(ctr + 1))

\* parser.ts:192-231, the duplicates_removal branch
ParseDistinct(op, parentId, ctr) ==
  AddTable(
    AddNestedLoop(
      Result(<<OpNode(NodeId(ctr + 1), "distinct", "DISTINCT",
                      parseCost(op.cost_info), 0, StageExtra(op))>>,
             EdgeTo(NodeId(ctr + 1), parentId), ctr + 1),
      op.nested_loop, NodeId(ctr + 1)),
    op.table, NodeId(ctr + 1))

\* parser.ts:234-259, the union_result branch
ParseUnion(op, parentId, ctr) ==
  parseSpecifications(OrEmpty(op.query_specifications), 1, NodeId(ctr + 1),
    Result(<<OpNode(NodeId(ctr + 1), "union", "UNION", Zero, 0,
                    IF op.using_temporary_table
                    THEN <<"Using temporary table">> ELSE <<>>)>>,
           EdgeTo(NodeId(ctr + 1), parentId), ctr + 1))

\* parser.ts:276-280: subqueries, optimized_away_subqueries, attached_subqueries
AllSubqueries(block) ==
  OrEmpty(block.subqueries) \o OrEmpty(block.optimized_away_subqueries)
  \o OrEmpty(block.attached_subqueries)

\* MessageIfEmpty with the kind select whatever blockType the caller passed
MessageIfEmptySelect(block, parentId, blockType, r) ==
  IF TruthyStr(block.message) /\ Len(r.nodes) = 0
  THEN Result(<<OpNode(NodeId(r.ctr + 1), "select", block.message[1], Zero,
                       0, <<>>)>>,
              EdgeTo(NodeId(r.ctr + 1), parentId), r.ctr + 1)
  ELSE r

\* parser.ts:298-311: the message node, when the level has a message and
\* nothing was pushed
MessageIfEmpty(block, parentId, blockType, r) ==
  IF TruthyStr(block.message) /\ Len(r.nodes) = 0
  THEN Result(<<OpNode(NodeId(r.ctr + 1), blockType, block.message[1], Zero,
                       0, <<>>)>>,
              EdgeTo(NodeId(r.ctr + 1), parentId), r.ctr + 1)
  ELSE r

\* parser.ts:261-313, the level without a stage: nested_loop, table, the
\* subqueries, the nested query_block, the message
ParsePlain(block, parentId, blockType, ctr) ==
  MessageIfEmpty(block, parentId, blockType,
    AddQueryBlock(
      parseSubqueries(AllSubqueries(block), 1, parentId,
        AddTable(AddNestedLoop(Empty(ctr), block.nested_loop, parentId),
                 block.table, parentId)),
      block.query_block, parentId))

\* parseQueryBlock with the union looked at before the other stages
parseQueryBlockUnionFirst(block, parentId, blockType, ctr) ==
  IF block.union_result # <<>>
  THEN ParseUnion(block.union_result[1], parentId, ctr)
  ELSE IF block.ordering_operation # <<>>
  THEN ParseOrdering(block.ordering_operation[1], parentId, ctr)
  ELSE IF block.grouping_operation # <<>>
  THEN parseGroupingOperation(block.grouping_operation, parentId, ctr)
  ELSE IF block.duplicates_removal # <<>>
  THEN ParseDistinct(block.duplicates_removal[1], parentId, ctr)
  ELSE ParsePlain(block, parentId, blockType, ctr)

\* parser.ts:123-314
parseQueryBlock(block, parentId, blockType, ctr) ==
  IF block.ordering_operation # <<>>
  THEN ParseOrdering(block.ordering_operation[1], parentId, ctr)
  ELSE IF block.grouping_operation # <<>>
  THEN parseGroupingOperation(block.grouping_operation, parentId, ctr)
  ELSE IF block.duplicates_removal # <<>>
  THEN ParseDistinct(block.duplicates_removal[1], parentId, ctr)
  ELSE IF block.union_result # <<>>
  THEN ParseUnion(block.union_result[1], parentId, ctr)
  ELSE ParsePlain(block, parentId, blockType, ctr)

(***************************************************************************)
(* parseGroupingOperation, parser.ts:316-368 (groupOp is the optional      *)
(* field itself: absent returns nothing)                                   *)
(***************************************************************************)
parseGroupingOperation(groupOp, parentId, ctr) ==
  IF groupOp = <<>> THEN Empty(ctr)
  ELSE
  AddBufferResult(
    AddTable(
      AddNestedLoop(
        Result(<<OpNode(NodeId(ctr + 1), "group", "GROUP BY",
                        parseCost(groupOp[1].cost_info), 0,
                        StageExtra(groupOp[1]))>>,
               EdgeTo(NodeId(ctr + 1), parentId), ctr + 1),
        groupOp[1].nested_loop, NodeId(ctr + 1)),
      groupOp[1].table, NodeId(ctr + 1)),
    groupOp[1].buffer_result, NodeId(ctr + 1))

(***************************************************************************)
(* parseBufferResult, parser.ts:370-409                                    *)
(***************************************************************************)
\* parseBufferResult with the contents handed parentId instead of bufferId
parseBufferResultDetached(buffer, parentId, ctr) ==
  IF buffer = <<>> THEN Empty(ctr)
  ELSE
  AddTable(
    AddNestedLoop(
      Result(<<OpNode(NodeId(ctr + 1), "buffer", "Buffer Result", Zero, 0,
                      IF buffer[1].using_temporary_table
                      THEN <<"Using temporary table">> ELSE <<>>)>>,
             EdgeTo(NodeId(ctr + 1), parentId), ctr + 1),
      buffer[1].nested_loop, parentId),
    buffer[1].table, parentId)

parseBufferResult(buffer, parentId, ctr) ==
  IF buffer = <<>> THEN Empty(ctr)
  ELSE
  AddTable(
    AddNestedLoop(
      Result(<<OpNode(NodeId(ctr + 1), "buffer", "Buffer Result", Zero, 0,
                      IF buffer[1].using_temporary_table
                      THEN <<"Using temporary table">> ELSE <<>>)>>,
             EdgeTo(NodeId(ctr + 1), parentId), ctr + 1),
      buffer[1].nested_loop, NodeId(ctr + 1)),
    buffer[1].table, NodeId(ctr + 1))

(***************************************************************************)
(* markCriticalPath, parser.ts:411-461                                     *)
(***************************************************************************)
\* nodes.find(n => n.id === nodeId): the index of the first match, 0 if none
FindIndex(nodes, nodeId) ==
  IF \E i \in 1..Len(nodes) : nodes[i].id = nodeId
  THEN CHOOSE i \in 1..Len(nodes) :
         /\ nodes[i].id = nodeId
         /\ \A j \in 1..(i - 1) : nodes[j].id # nodeId
  ELSE 0

\* Math.max(0, ...childCosts) over the first n entries of childCosts
RECURSIVE MaxWithZero(_, _)
MaxWithZero(childCosts, n) ==
  IF n = 0 THEN Zero ELSE JsMax2(MaxWithZero(childCosts, n - 1), childCosts[n])

\* parser.ts:418-427: the value calculateCumulativeCost(nodeId) returns
RECURSIVE calculateCumulativeCost(_, _)
calculateCumulativeCost(nodes, nodeId) ==
  LET i == FindIndex(nodes, nodeId)
  IN  IF i = 0 THEN Zero
      ELSE LET node       == nodes[i]
               childCosts == [k \in 1..Len(node.children) |->
                                calculateCumulativeCost(nodes, node.children[k])]
           IN  JsAdd(node.cost, MaxWithZero(childCosts, Len(childCosts)))

\* the ids for which a call calculateCumulativeCost(nodeId) does nodeCosts.set
RECURSIVE VisitedFrom(_, _)
VisitedFrom(nodes, nodeId) ==
  LET i == FindIndex(nodes, nodeId)
  IN  IF i = 0 THEN {}
      ELSE {nodeId} \cup UNION {VisitedFrom(nodes, nodes[i].children[k]) :
                                 k \in 1..Len(nodes[i].children)}

\* new Set(nodes.flatMap(n => n.children))
AllChildren(nodes) ==
  UNION {{nodes[i].children[k] : k \in 1..Len(nodes[i].children)} :
           i \in 1..Len(nodes)}

\* nodes.filter(n => !allChildren.has(n.id))
RootNodes(nodes) ==
  LET allChildren == AllChildren(nodes)
      IsRoot(n)   == n.id \notin allChildren
  IN  SelectSeq(nodes, IsRoot)

\* the Map nodeCosts once rootNodes.forEach(calculateCumulativeCost) has run
NodeCosts(nodes) ==
  LET roots   == RootNodes(nodes)
      visited == UNION {VisitedFrom(nodes, roots[i].id) : i \in 1..Len(roots)}
  IN  [id \in visited |-> calculateCumulativeCost(nodes, id)]

\* nodeCosts.get(id) || 0
CostOrZero(nodeCosts, id) ==
  IF id \in DOMAIN nodeCosts THEN NumOrZero(nodeCosts[id]) ELSE Zero

\* InsertDesc with the comparator reversed (a.cost - b.cost): ascending
RECURSIVE InsertAsc(_, _)
InsertAsc(sorted, x) ==
  IF sorted = <<>> THEN <<x>>
  ELSE IF x.cost.v < sorted[1].cost.v THEN <<x>> \o sorted
  ELSE <<sorted[1]>> \o InsertAsc(Tail(sorted), x)

\* pairs.sort((a, b) => b.cost - a.cost): stable, descending by cost; x goes
\* behind every element whose cost is not smaller
RECURSIVE InsertDesc(_, _)
InsertDesc(sorted, x) ==
  IF sorted = <<>> THEN <<x>>
  ELSE IF x.cost.v > sorted[1].cost.v THEN <<x>> \o sorted
  ELSE <<sorted[1]>> \o InsertDesc(Tail(sorted), x)

RECURSIVE SortDesc(_, _)
SortDesc(pairs, n) ==
  IF n = 0 THEN <<>> ELSE InsertDesc(SortDesc(pairs, n - 1), pairs[n])

\* ids.map(id => ({ id, cost: nodeCosts.get(id) || 0 }))
CostPairs(ids, nodeCosts) ==
  [k \in 1..Len(ids) |-> [id |-> ids[k], cost |-> CostOrZero(nodeCosts, ids[k])]]

\* parser.ts:436-450: the ids markPath(nodeId) sets isCriticalPath on, in order
RECURSIVE markPath(_, _, _)
markPath(nodes, nodeCosts, nodeId) ==
  LET i == FindIndex(nodes, nodeId)
  IN  IF i = 0 THEN <<>>
      ELSE LET node == nodes[i]
           IN  IF Len(node.children) > 0
               THEN LET childCostPairs ==
                          SortDesc(CostPairs(node.children, nodeCosts),
                                   Len(node.children))
                    IN  <<nodeId>> \o markPath(nodes, nodeCosts, childCostPairs[1].id)
               ELSE <<nodeId>>

\* the ids markCriticalPath(nodes) marks, in the order it marks them
CriticalIds(nodes) ==
  IF Len(nodes) = 0 THEN <<>>
  ELSE LET nodeCosts == NodeCosts(nodes)
           rootNodes == RootNodes(nodes)
           rootCosts == SortDesc(CostPairs(IdsOf(rootNodes), nodeCosts),
                                 Len(rootNodes))
       IN  IF Len(rootCosts) > 0
           THEN markPath(nodes, nodeCosts, rootCosts[1].id)
           ELSE <<>>

\* the node list as markCriticalPath(nodes) leaves it
markCriticalPath(nodes) ==
  LET marked == CriticalIds(nodes)
  IN  [i \in 1..Len(nodes) |->
         IF \E k \in 1..Len(marked) : marked[k] = nodes[i].id
         THEN [nodes[i] EXCEPT !.isCriticalPath = TRUE]
         ELSE nodes[i]]

(***************************************************************************)
(* applyLayout, parser.ts:516-604                                          *)
(*                                                                         *)
(* Every width is a sum of multiples of nodeWidth and horizontalGap, both  *)
(* even, so the halves the code takes are whole numbers.                   *)
(***************************************************************************)
nodeWidth == 280

nodeHeight == 120

horizontalGap == 60

verticalGap == 80

\* es.map(e => e.source)
Sources(es) == [k \in 1..Len(es) |-> es[k].source]

\* the set of the entries of a list
Elements(seq) == {seq[k] : k \in 1..Len(seq)}

\* childrenMap.get(nodeId) || []: the sources of the edges into nodeId, in
\* edge order
ChildrenMap(resultEdges, nodeId) ==
  LET Into(e) == e.target = nodeId
  IN  Sources(SelectSeq(resultEdges, Into))

\* the keys of parentMap: every id that is the source of an edge
ParentKeys(resultEdges) ==
  {resultEdges[k].source : k \in 1..Len(resultEdges)}

\* LayoutRoots that keeps the first parentless node only
LayoutRootsFirstOnly(flow, resultEdges) ==
  LET Parentless(n) == n.id \notin ParentKeys(resultEdges)
  IN  IF SelectSeq(flow, Parentless) = <<>> THEN <<>>
      ELSE <<SelectSeq(flow, Parentless)[1]>>

\* nodes.filter(n => !parentMap.has(n.id))
LayoutRoots(flow, resultEdges) ==
  LET Parentless(n) == n.id \notin ParentKeys(resultEdges)
  IN  SelectSeq(flow, Parentless)

RECURSIVE calcWidth(_, _)
RECURSIVE TotalChildWidth(_, _, _)

\* children.reduce((sum, childId) => sum + calcWidth(childId) + horizontalGap,
\* -horizontalGap), first n children
TotalChildWidth(resultEdges, children, n) ==
  IF n = 0 THEN 0 - horizontalGap
  ELSE TotalChildWidth(resultEdges, children, n - 1)
       + calcWidth(resultEdges, children[n]) + horizontalGap

\* Math.max(a, b) on whole numbers
IntMax(a, b) == IF a >= b THEN a ELSE b

\* parser.ts:540-553, on the children of the node
WidthOver(resultEdges, children) ==
  IF Len(children) = 0 THEN nodeWidth
  ELSE IntMax(nodeWidth,
              TotalChildWidth(resultEdges, children, Len(children)))

calcWidth(resultEdges, nodeId) ==
  WidthOver(resultEdges, ChildrenMap(resultEdges, nodeId))

\* the ids for which a call calcWidth(nodeId) does subtreeWidths.set
RECURSIVE WidthsSetFrom(_, _)
WidthsSetFrom(resultEdges, nodeId) ==
  {nodeId} \cup UNION {WidthsSetFrom(resultEdges, c) :
                         c \in Elements(ChildrenMap(resultEdges, nodeId))}

\* the Map subtreeWidths once roots.forEach(root => calcWidth(root.id)) has run
SubtreeWidths(roots, resultEdges) ==
  [id \in UNION {WidthsSetFrom(resultEdges, roots[i].id) :
                   i \in 1..Len(roots)}
     |-> calcWidth(resultEdges, id)]

\* subtreeWidths.get(id) || nodeWidth
WidthOrDefault(widths, id) ==
  IF id \in DOMAIN widths /\ widths[id] # 0 THEN widths[id] ELSE nodeWidth

RECURSIVE PlacedChildWidth(_, _, _)

\* PlacedChildWidth with the reduce started from 0 instead of -horizontalGap
PlacedChildWidthFromZero(widths, children, n) ==
  IF n = 0 THEN 0
  ELSE PlacedChildWidth(widths, children, n - 1)
       + WidthOrDefault(widths, children[n]) + horizontalGap

\* children.reduce((sum, childId) => sum + (subtreeWidths.get(childId) ||
\* nodeWidth) + horizontalGap, -horizontalGap), first n children
PlacedChildWidth(widths, children, n) ==
  IF n = 0 THEN 0 - horizontalGap
  ELSE PlacedChildWidth(widths, children, n - 1)
       + WidthOrDefault(widths, children[n]) + horizontalGap

\* the layout in progress: the Set positioned, the positions assigned so far
\* (by node id) and the running rootX
LayoutStart ==
  [positioned |-> {}, position |-> <<>>, rootX |-> 0]

\* positioned.add(nodeId), and node.position = { x, y } when the node exists
Place(L, st, nodeId, x, y) ==
  IF FindIndex(L.flow, nodeId) = 0
  THEN [st EXCEPT !.positioned = @ \cup {nodeId}]
  ELSE [st EXCEPT !.positioned = @ \cup {nodeId},
                  !.position = (nodeId :> [x |-> x, y |-> y]) @@ @]

RECURSIVE positionNode(_, _, _, _, _)
RECURSIVE positionChildren(_, _, _, _, _, _)

\* parser.ts:583-588: children.forEach from child k on, childX as it stands
positionChildren(L, st, children, k, childX, y) ==
  IF k > Len(children) THEN st
  ELSE positionChildren(L,
         positionNode(L, st, children[k],
                      childX + WidthOrDefault(L.widths, children[k]) \div 2
                        - nodeWidth \div 2,
                      y),
         children, k + 1,
         childX + WidthOrDefault(L.widths, children[k]) + horizontalGap, y)

\* positionBelow with the children left in the row of their parent
positionBelowSameRow(L, st, children, x, y) ==
  IF Len(children) = 0 THEN st
  ELSE positionChildren(L, st, children, 1,
         x + (nodeWidth
              - PlacedChildWidth(L.widths, children, Len(children))) \div 2,
         y)

\* parser.ts:574-588: what positionNode does below a node it has placed
positionBelow(L, st, children, x, y) ==
  IF Len(children) = 0 THEN st
  ELSE positionChildren(L, st, children, 1,
         x + (nodeWidth
              - PlacedChildWidth(L.widths, children, Len(children))) \div 2,
         y + nodeHeight + verticalGap)

\* parser.ts:564-589
positionNode(L, st, nodeId, x, y) ==
  IF nodeId \in st.positioned THEN st
  ELSE IF FindIndex(L.flow, nodeId) = 0 THEN Place(L, st, nodeId, x, y)
  ELSE positionBelow(L, Place(L, st, nodeId, x, y),
                     ChildrenMap(L.edges, nodeId), x, y)

\* rootX += width + horizontalGap * 2
AdvanceRoot(st, width) ==
  [st EXCEPT !.rootX = @ + width + horizontalGap * 2]

\* parser.ts:592-597: roots.forEach from root k on
RECURSIVE positionRoots(_, _, _, _)
positionRoots(L, st, roots, k) ==
  IF k > Len(roots) THEN st
  ELSE positionRoots(L,
         AdvanceRoot(positionNode(L, st, roots[k].id, st.rootX, 0),
                     WidthOrDefault(L.widths, roots[k].id)),
         roots, k + 1)

\* parser.ts:596-603: the nodes never positioned are stacked at rootX, from
\* node k on, orphanY as it stands
RECURSIVE placeOrphans(_, _, _, _)
placeOrphans(L, st, k, orphanY) ==
  IF k > Len(L.flow) THEN st
  ELSE IF L.flow[k].id \notin st.positioned
  THEN placeOrphans(L,
         [st EXCEPT !.position =
            (L.flow[k].id :> [x |-> st.rootX, y |-> orphanY]) @@ @],
         k + 1, orphanY + nodeHeight + verticalGap)
  ELSE placeOrphans(L, st, k + 1, orphanY)

\* the position a node holds when the layout ends: { x: 0, y: 0 } if it was
\* never assigned
PositionOf(st, id) ==
  IF id \in DOMAIN st.position THEN st.position[id] ELSE [x |-> 0, y |-> 0]

\* the maps and lists applyLayout builds before it positions anything
LayoutOf(flow, resultEdges, roots) ==
  [flow |-> flow, edges |-> resultEdges, roots |-> roots,
   widths |-> SubtreeWidths(roots, resultEdges)]

\* the layout when the roots and then the orphans are placed
LayoutEnd(L) ==
  placeOrphans(L, positionRoots(L, LayoutStart, L.roots, 1), 1, 0)

\* the positions written into the nodes
Positioned(flow, st) ==
  [i \in 1..Len(flow) |->
     [flow[i] EXCEPT !.position = PositionOf(st, flow[i].id)]]

\* the node list as applyLayout(nodes, edges) leaves it
applyLayout(flow, resultEdges) ==
  Positioned(flow,
    LayoutEnd(LayoutOf(flow, resultEdges, LayoutRoots(flow, resultEdges))))

(***************************************************************************)
(* parseExplainJSON, parser.ts:463-514                                     *)
(***************************************************************************)
\* TotalCost as the cumulative cost of the path below the first node
TotalCostOfPath(planNodes, n) ==
  IF n = 0 THEN Zero ELSE calculateCumulativeCost(planNodes, planNodes[1].id)

\* planNodes.reduce((sum, node) => sum + node.cost, 0), first n nodes
RECURSIVE TotalCost(_, _)
TotalCost(planNodes, n) ==
  IF n = 0 THEN Zero ELSE JsAdd(TotalCost(planNodes, n - 1), planNodes[n].cost)

\* parser.ts:498-511: the ReactFlow edge of result.edges[index + 1]
FlowEdge(planNodes, edge, index) ==
  LET i == FindIndex(planNodes, edge.source)
  IN  [id |-> "edge-" \o ToString(index),
       source |-> edge.source, target |-> edge.target,
       rows |-> IF i = 0 THEN 0 ELSE planNodes[i].rows,
       isCriticalPath |-> IF i = 0 THEN FALSE ELSE planNodes[i].isCriticalPath]

\* parser.ts:498-511: result.edges mapped to ReactFlow edges
FlowEdges(planNodes, resultEdges) ==
  [k \in 1..Len(resultEdges) |-> FlowEdge(planNodes, resultEdges[k], k - 1)]

\* Math.max(...planNodes.map(n => n.cost), 1) over the first n nodes
RECURSIVE MaxCost(_, _)
MaxCost(planNodes, n) ==
  IF n = 0 THEN Num(Scale)
  ELSE JsMax2(MaxCost(planNodes, n - 1), planNodes[n].cost)

\* parser.ts:484-492: the ReactFlow node of a plan node, not yet laid out
FlowNode(node, maxCost) ==
  [id |-> node.id, type |-> "queryPlanNode",
   position |-> [x |-> 0, y |-> 0],
   data |-> node @@ [maxCost |-> maxCost]]

FlowNodes(planNodes, maxCost) ==
  [i \in 1..Len(planNodes) |-> FlowNode(planNodes[i], maxCost)]

\* parser.ts:478-513: what is returned once planNodes is marked
ParseResult(planNodes, resultEdges, ctr) ==
  [nodes |-> applyLayout(FlowNodes(planNodes,
                                   MaxCost(planNodes, Len(planNodes))),
                         resultEdges),
   planNodes |-> planNodes,
   edges |-> FlowEdges(planNodes, resultEdges),
   totalCost |-> TotalCost(planNodes, Len(planNodes)),
   nodeIdCounter |-> ctr]

\* parser.ts:475: const planNodes = markCriticalPath(result.nodes)
MarkResult(result) ==
  ParseResult(markCriticalPath(result.nodes), result.edges, result.ctr)

\* what parseExplainJSON(json) returns; the counter is reset to 0 first
parseExplainJSON(json) ==
  MarkResult(parseQueryBlock(json.query_block, NoParent, "select", 0))

(***************************************************************************)
(* Inputs: records of the types of part_003:1-117, drawn from small sets   *)
(***************************************************************************)
\* the longest nested_loop / query_specifications list that is enumerated
MaxItems == 3

\* decimal strings as MySQL writes them
Cost_1_00   == <<"1", ".", "0", "0">>
Cost_25_00  == <<"2", "5", ".", "0", "0">>
Cost_10_50  == <<"1", "0", ".", "5", "0">>
Cost_500_00 == <<"5", "0", "0", ".", "0", "0">>
Cost_0_00   == <<"0", ".", "0", "0">>
\* a cost string that is no number
Cost_NA     == <<"N", "/", "A">>

ReadCost(c) == <<[NoCostInfo EXCEPT !.read_cost = <<c>>]>>

QueryCost(c) == <<[NoCostInfo EXCEPT !.query_cost = <<c>>]>>

\* a TableInfo with nothing but the two required fields
PlainTable(name) ==
  [table_name |-> <<name>>, access_type |-> <<"ALL">>, key |-> <<>>,
   used_key_parts |-> <<>>, attached_condition |-> <<>>,
   rows_examined_per_scan |-> <<>>, rows_produced_per_join |-> <<>>,
   cost_info |-> <<>>, using_index |-> FALSE, using_temporary |-> FALSE,
   using_filesort |-> FALSE, using_index_condition |-> <<>>, message |-> <<>>,
   materialized_from_subquery |-> <<>>]

\* a QueryBlock with no field set
EmptyBlock ==
  [ordering_operation |-> <<>>, grouping_operation |-> <<>>,
   duplicates_removal |-> <<>>, union_result |-> <<>>, nested_loop |-> <<>>,
   table |-> <<>>, subqueries |-> <<>>, optimized_away_subqueries |-> <<>>,
   attached_subqueries |-> <<>>, query_block |-> <<>>, message |-> <<>>]

\* the cost records a table is given: none, one field, several fields
TableCostInfos ==
  {<<>>, ReadCost(Cost_1_00), ReadCost(Cost_10_50), ReadCost(Cost_500_00),
   ReadCost(Cost_NA),
   <<[NoCostInfo EXCEPT !.query_cost = <<Cost_25_00>>,
                        !.read_cost = <<Cost_1_00>>]>>,
   <<[NoCostInfo EXCEPT !.read_cost = <<Cost_10_50>>,
                        !.eval_cost = <<Cost_1_00>>,
                        !.prefix_cost = <<Cost_25_00>>]>>,
   <<[NoCostInfo EXCEPT !.prefix_cost = <<Cost_25_00>>]>>,
   <<[NoCostInfo EXCEPT !.sort_cost = <<Cost_25_00>>]>>}

\* (rows_examined_per_scan, rows_produced_per_join)
RowEstimates ==
  {<< <<>>, <<>> >>, << <<100>>, <<>> >>, << <<>>, <<50>> >>,
   << <<0>>, <<50>> >>, << <<100>>, <<50>> >>, << <<100>>, <<0>> >>}

\* (access_type, key, used_key_parts, attached_condition)
AccessPaths ==
  {<< <<"ALL">>, <<>>, <<>>, <<>> >>,
   << <<"ref">>, <<"idx_name">>, << <<"name">> >>, <<>> >>,
   << <<"range">>, <<"idx_created_at">>, << <<"created_at">> >>,
      <<"users.status = 'active'">> >>}

\* (using_index, using_temporary, using_filesort, using_index_condition, message)
TableFlags ==
  {<<FALSE, FALSE, FALSE, <<>>, <<>> >>,
   <<TRUE, FALSE, FALSE, <<>>, <<>> >>,
   <<FALSE, TRUE, TRUE, <<"t.a > 1">>, <<>> >>,
   <<TRUE, TRUE, TRUE, <<"t.a > 1">>, <<"no matching row">> >>}

\* table records that nest no plan, with every combination of the above
LeafTables ==
  {[PlainTable("users") EXCEPT
      !.table_name = n, !.cost_info = ci,
      !.rows_examined_per_scan = r[1], !.rows_produced_per_join = r[2],
      !.access_type = a[1], !.key = a[2], !.used_key_parts = a[3],
      !.attached_condition = a[4],
      !.using_index = f[1], !.using_temporary = f[2], !.using_filesort = f[3],
      !.using_index_condition = f[4], !.message = f[5]] :
     n \in {<<>>, <<"users">>}, ci \in TableCostInfos, r \in RowEstimates,
     a \in AccessPaths, f \in TableFlags}

\* table records with every combination of the four flags and the message
FlagTables ==
  {[PlainTable("flagged") EXCEPT
      !.using_index = ui, !.using_temporary = ut, !.using_filesort = uf,
      !.using_index_condition = uc, !.message = m] :
     ui \in BOOLEAN, ut \in BOOLEAN, uf \in BOOLEAN,
     uc \in {<<>>, <<"t.a > 1">>, <<"t.b = 2">>},
     m \in {<<>>, <<"no matching row">>, <<"Impossible WHERE">>}}

\* the tables that stages and join lists are built from
Cheap ==
  [PlainTable("cheap_table") EXCEPT
     !.access_type = <<"const">>, !.rows_examined_per_scan = <<1>>,
     !.cost_info = ReadCost(Cost_1_00)]

Costly ==
  [PlainTable("expensive_table") EXCEPT
     !.rows_examined_per_scan = <<100>>, !.rows_produced_per_join = <<10>>,
     !.cost_info = ReadCost(Cost_500_00)]

Medium ==
  [PlainTable("orders") EXCEPT
     !.rows_examined_per_scan = <<10>>, !.using_index = TRUE,
     !.cost_info = ReadCost(Cost_25_00)]

\* a table whose cost is no number and whose row estimates are left out
Unpriced ==
  [PlainTable("unpriced_table") EXCEPT !.cost_info = ReadCost(Cost_NA)]

TableBlock(t) == [EmptyBlock EXCEPT !.table = <<t>>]

MessageBlock(m) == [EmptyBlock EXCEPT !.message = <<m>>]

\* a derived table: its rows come from a materialized subquery over inner
Derived(name, costInfo, inner) ==
  [PlainTable(name) EXCEPT
     !.cost_info = costInfo,
     !.materialized_from_subquery = <<[query_block |-> inner]>>]

Items(tables) == [i \in 1..Len(tables) |-> [table |-> tables[i]]]

\* every list of at most n elements of S
SeqsUpTo(S, n) == UNION {[1..k -> S] : k \in 0..n}

\* a derived table that is cheap itself and materializes an expensive scan
DerivedCheap == Derived("derived_cheap", ReadCost(Cost_1_00), TableBlock(Costly))

\* a derived table over a block that emits nothing
DerivedEmpty == Derived("derived_empty", ReadCost(Cost_25_00), EmptyBlock)

\* a derived table over a block that holds nothing but a message
DerivedMessage ==
  Derived("derived_message", ReadCost(Cost_10_50), MessageBlock("No tables used"))

\* (using_filesort, using_temporary_table, cost_info) of a stage
StageHeads ==
  {<<fs, tt, ci>> : fs \in BOOLEAN, tt \in BOOLEAN,
                    ci \in {<<>>, QueryCost(Cost_25_00)}}

\* what a stage nests: an optional join list and an optional table
StageLoops == {<<>>} \cup {<<Items(l)>> : l \in SeqsUpTo({Cheap, Costly}, MaxItems)}

StageTables == {<<>>, <<Cheap>>, <<Costly>>, <<DerivedCheap>>}

\* BufferResult, part_003:88-92
BufferResults ==
  {[using_temporary_table |-> tt, table |-> t, nested_loop |-> nl] :
     tt \in BOOLEAN, t \in {<<>>, <<Medium>>},
     nl \in {<<>>, <<Items(<<Cheap, Costly>>)>>}}

\* GroupingOperation, part_003:71-78
GroupingOperation(head, nl, t, buf) ==
  [using_filesort |-> head[1], using_temporary_table |-> head[2],
   cost_info |-> head[3], nested_loop |-> nl, table |-> t,
   buffer_result |-> buf]

GroupingOperations ==
  {GroupingOperation(h, nl, t, <<>>) :
     h \in StageHeads, nl \in StageLoops, t \in StageTables}
  \cup {GroupingOperation(<<FALSE, TRUE, <<>> >>, nl, t, <<b>>) :
          nl \in {<<>>, <<Items(<<Costly, Cheap>>)>>}, t \in {<<>>, <<Cheap>>},
          b \in BufferResults}

\* the grouping stages an ordering stage is given to nest
NestedGroupings ==
  {GroupingOperation(<<TRUE, TRUE, QueryCost(Cost_10_50)>>, nl, t, <<>>) :
     nl \in {<<>>, <<Items(<<Cheap, Costly>>)>>}, t \in {<<>>, <<Medium>>}}

\* OrderingOperation, part_003:60-69 (the fields the parser reads)
OrderingOperation(head, nl, t, g) ==
  [using_filesort |-> head[1], using_temporary_table |-> head[2],
   cost_info |-> head[3], nested_loop |-> nl, table |-> t,
   grouping_operation |-> g]

OrderingOperations ==
  {OrderingOperation(h, nl, t, <<>>) :
     h \in StageHeads, nl \in StageLoops, t \in StageTables}
  \cup {OrderingOperation(<<TRUE, FALSE, <<>> >>, nl, t, <<g>>) :
          nl \in {<<>>, <<Items(<<Costly, Cheap>>)>>}, t \in {<<>>, <<Cheap>>},
          g \in NestedGroupings}

\* DuplicatesRemoval, part_003:80-86
DuplicatesRemovals ==
  {[using_filesort |-> h[1], using_temporary_table |-> h[2], cost_info |-> h[3],
    nested_loop |-> nl, table |-> t] :
     h \in StageHeads, nl \in StageLoops, t \in StageTables}

\* the blocks that union branches, subqueries and nested blocks are drawn from
SubBlocks ==
  {EmptyBlock, MessageBlock("Impossible WHERE"), TableBlock(Costly),
   [EmptyBlock EXCEPT !.nested_loop = <<Items(<<Cheap, Medium>>)>>],
   [EmptyBlock EXCEPT
      !.ordering_operation =
        <<OrderingOperation(<<TRUE, FALSE, <<>> >>, <<>>, <<Medium>>, <<>>)>>]}

\* QuerySpecification / SubqueryInfo, part_003:101-112
BlockRefs(blocks) == {[query_block |-> b] : b \in blocks}

\* UnionResult, part_003:94-99
UnionResults ==
  {[using_temporary_table |-> tt, query_specifications |-> qs] :
     tt \in BOOLEAN,
     qs \in {<<>>} \cup {<<l>> : l \in SeqsUpTo(BlockRefs(SubBlocks), MaxItems)}}

\* levels with one stage, and levels where a stage shadows other fields
StageBlocks ==
  {[EmptyBlock EXCEPT !.ordering_operation = <<o>>] : o \in OrderingOperations}
  \cup {[EmptyBlock EXCEPT !.grouping_operation = <<g>>] : g \in GroupingOperations}
  \cup {[EmptyBlock EXCEPT !.duplicates_removal = <<d>>] : d \in DuplicatesRemovals}
  \cup {[EmptyBlock EXCEPT !.union_result = <<u>>] : u \in UnionResults}

\* levels that hold several of the fields the dispatch looks at: each stage
\* present or absent, over a rest that holds a join list, a table, a subquery
\* and a message, or none of them
ShadowBlocks ==
  {[EmptyBlock EXCEPT
      !.ordering_operation = o, !.grouping_operation = g,
      !.duplicates_removal = d, !.union_result = u,
      !.nested_loop = nl, !.table = t, !.subqueries = sq, !.message = m] :
     o \in {<<>>, <<OrderingOperation(<<TRUE, FALSE, QueryCost(Cost_25_00)>>,
                                      <<>>, <<Cheap>>, <<>>)>>},
     g \in {<<>>, <<GroupingOperation(<<FALSE, TRUE, QueryCost(Cost_10_50)>>,
                                      <<>>, <<Costly>>, <<>>)>>},
     d \in {<<>>, <<[using_filesort |-> FALSE, using_temporary_table |-> TRUE,
                     cost_info |-> <<>>,
                     nested_loop |-> <<Items(<<Cheap, Medium>>)>>,
                     table |-> <<>>]>>},
     u \in {<<>>, <<[using_temporary_table |-> TRUE,
                     query_specifications |->
                       << <<[query_block |-> TableBlock(Costly)],
                            [query_block |-> TableBlock(Medium)]>> >>]>>},
     nl \in {<<>>, <<Items(<<Costly, Cheap>>)>>},
     t \in {<<>>, <<Medium>>},
     sq \in {<<>>, << <<[query_block |-> TableBlock(Cheap)]>> >>},
     m \in {<<>>, <<"Impossible WHERE">>}}

\* levels without a stage: join list, table, subqueries, nested block, message
JoinBlocks ==
  {[EmptyBlock EXCEPT !.nested_loop = <<Items(l)>>, !.table = t, !.message = m] :
     l \in SeqsUpTo({Cheap, Costly, Medium, DerivedCheap, Unpriced}, MaxItems),
     t \in {<<>>, <<Medium>>}, m \in {<<>>, <<"Select tables optimized away">>}}

TableBlocks ==
  {TableBlock(t) :
     t \in LeafTables \cup FlagTables
            \cup {DerivedCheap, DerivedEmpty, DerivedMessage}}

SubqueryBlocks ==
  {[EmptyBlock EXCEPT
      !.table = t, !.subqueries = sq, !.optimized_away_subqueries = oa,
      !.attached_subqueries = at, !.query_block = qb, !.message = m] :
     t \in {<<>>, <<Cheap>>},
     sq \in {<<>>} \cup {<<l>> : l \in SeqsUpTo(BlockRefs(SubBlocks), MaxItems - 1)},
     oa \in {<<>>, << <<[query_block |-> MessageBlock("No tables used")]>> >>},
     at \in {<<>>, << <<[query_block |-> TableBlock(Medium)]>> >>},
     qb \in {<<>>} \cup {<<b>> : b \in SubBlocks},
     m \in {<<>>, <<"no matching row in const table">>}}

\* MySQLExplainJSON, part_003:1-3
Plans ==
  {[query_block |-> b] :
     b \in StageBlocks \cup ShadowBlocks \cup JoinBlocks \cup TableBlocks
             \cup SubqueryBlocks}

(***************************************************************************)
(* validateExplainJSON, parser.ts:606-618, and the JSON.parse it calls     *)
(*                                                                         *)
(* An input text is a sequence of JSON tokens (the lexer's output).  A     *)
(* JSON value is a record tagged by t: null, boolean, number, string,      *)
(* array (items) or object (keys and vals, in source order).               *)
(***************************************************************************)
JNull == [t |-> "null"]

JBool(b) == [t |-> "boolean", b |-> b]

JNum(n) == [t |-> "number", n |-> n]

JStr(str) == [t |-> "string", s |-> str]

JArr(items) == [t |-> "array", items |-> items]

JObj(keys, vals) == [t |-> "object", keys |-> keys, vals |-> vals]

QB == "\"query_block\""

FOO == "\"foo\""

EMPTYSTR == "\"\""

StringTokens == {QB, FOO, EMPTYSTR}

\* the characters between the quotes of a string token
StringOf(tok) ==
  CASE tok = QB -> "query_block"
    [] tok = FOO -> "foo"
    [] tok = EMPTYSTR -> ""

\* the outcome of a step that may throw
Threw(message) == [threw |-> TRUE, message |-> message, value |-> JNull, next |-> 0]

Value(v, next) == [threw |-> FALSE, message |-> "", value |-> v, next |-> next]

RECURSIVE ParseValue(_, _)
RECURSIVE ParseMembers(_, _, _, _)
RECURSIVE ParseElements(_, _, _)

\* one JSON value starting at token i
ParseValue(toks, i) ==
  IF i > Len(toks) THEN Threw("Unexpected end of JSON input")
  ELSE LET tok == toks[i]
       IN  CASE tok = "null" -> Value(JNull, i + 1)
             [] tok = "true" -> Value(JBool(TRUE), i + 1)
             [] tok = "false" -> Value(JBool(FALSE), i + 1)
             [] tok = "0" -> Value(JNum(0), i + 1)
             [] tok = "1" -> Value(JNum(1), i + 1)
             [] tok \in StringTokens -> Value(JStr(StringOf(tok)), i + 1)
             [] tok = "{" ->
                  IF i + 1 <= Len(toks) /\ toks[i + 1] = "}"
                  THEN Value(JObj(<<>>, <<>>), i + 2)
                  ELSE ParseMembers(toks, i + 1, <<>>, <<>>)
             [] tok = "[" ->
                  IF i + 1 <= Len(toks) /\ toks[i + 1] = "]"
                  THEN Value(JArr(<<>>), i + 2)
                  ELSE ParseElements(toks, i + 1, <<>>)
             [] OTHER -> Threw("Unexpected token")

\* the members of an object from token i on:  string : value  ( , | } )
ParseMembers(toks, i, keys, vals) ==
  IF i + 1 > Len(toks) THEN Threw("Unexpected end of JSON input")
  ELSE IF toks[i] \notin StringTokens \/ toks[i + 1] # ":"
  THEN Threw("Unexpected token")
  ELSE LET member == ParseValue(toks, i + 2)
       IN  IF member.threw THEN member
           ELSE IF member.next > Len(toks)
           THEN Threw("Unexpected end of JSON input")
           ELSE LET keys2 == Append(keys, StringOf(toks[i]))
                    vals2 == Append(vals, member.value)
                IN  CASE toks[member.next] = "}" ->
                           Value(JObj(keys2, vals2), member.next + 1)
                      [] toks[member.next] = "," ->
                           ParseMembers(toks, member.next + 1, keys2, vals2)
                      [] OTHER -> Threw("Unexpected token")

\* the elements of an array from token i on:  value  ( , | ] )
ParseElements(toks, i, items) ==
  LET element == ParseValue(toks, i)
  IN  IF element.threw THEN element
      ELSE IF element.next > Len(toks)
      THEN Threw("Unexpected end of JSON input")
      ELSE LET items2 == Append(items, element.value)
           IN  CASE toks[element.next] = "]" ->
                      Value(JArr(items2), element.next + 1)
                 [] toks[element.next] = "," ->
                      ParseElements(toks, element.next + 1, items2)
                 [] OTHER -> Threw("Unexpected token")

\* insignificant whitespace between tokens (spaces, line breaks, indentation)
WS == " "

\* the lexer drops the whitespace between tokens
SkipWhitespace(text) == SelectSeq(text, LAMBDA tok : tok # WS)

\* one value and then the end of the tokens, or a SyntaxError
ParseTokens(toks) ==
  LET parsed == ParseValue(toks, 1)
  IN  IF parsed.threw THEN parsed
      ELSE IF parsed.next <= Len(toks) THEN Threw("Unexpected token")
      ELSE parsed

\* JSON.parse(text): one value and then the end of the text, or a SyntaxError
JSONParse(text) == ParseTokens(SkipWhitespace(text))

\* parsed.query_block: a TypeError on null, undefined (<<>>) on a value
\* without the property, else the property (of an object: its last such key)
GetQueryBlock(parsed) ==
  IF parsed.t = "null"
  THEN [threw |-> TRUE,
        message |-> "Cannot read properties of null (reading 'query_block')",
        value |-> <<>>]
  ELSE IF parsed.t = "object"
          /\ \E k \in 1..Len(parsed.keys) : parsed.keys[k] = "query_block"
  THEN LET last == CHOOSE k \in 1..Len(parsed.keys) :
                     /\ parsed.keys[k] = "query_block"
                     /\ \A j \in (k + 1)..Len(parsed.keys) :
                          parsed.keys[j] # "query_block"
       IN  [threw |-> FALSE, message |-> "", value |-> <<parsed.vals[last]>>]
  ELSE [threw |-> FALSE, message |-> "", value |-> <<>>]

\* !x is false: x is neither undefined, null, false, 0 nor ""
TruthyJSON(opt) ==
  /\ opt # <<>>
  /\ opt[1].t # "null"
  /\ opt[1].t = "boolean" => opt[1].b
  /\ opt[1].t = "number" => opt[1].n # 0
  /\ opt[1].t = "string" => opt[1].s # ""

\* what a call returns, or that it threw
Returns(valid, error, data) ==
  [threw |-> FALSE, valid |-> valid, error |-> error, data |-> data]

Throws == [threw |-> TRUE, valid |-> FALSE, error |-> <<>>, data |-> <<>>]

\* the catch block, parser.ts:615-617
CatchInvalidJSON(message) == Returns(FALSE, <<"Invalid JSON: " \o message>>, <<>>)

\* validateExplainJSON with the property access outside the try block
validateExplainJSONUnguarded(text) ==
  LET parsed == JSONParse(text)
  IN  IF parsed.threw THEN CatchInvalidJSON(parsed.message)
      ELSE LET query_block == GetQueryBlock(parsed.value)
           IN  IF query_block.threw THEN Throws
               ELSE IF ~TruthyJSON(query_block.value)
               THEN Returns(FALSE,
                            <<"Invalid MySQL EXPLAIN JSON: missing query_block">>,
                            <<>>)
               ELSE Returns(TRUE, <<>>, <<parsed.value>>)

validateExplainJSON(text) ==
  LET parsed == JSONParse(text)
  IN  IF parsed.threw THEN CatchInvalidJSON(parsed.message)
      ELSE LET query_block == GetQueryBlock(parsed.value)
           IN  IF query_block.threw THEN CatchInvalidJSON(query_block.message)
               ELSE IF ~TruthyJSON(query_block.value)
               THEN Returns(FALSE,
                            <<"Invalid MySQL EXPLAIN JSON: missing query_block">>,
                            <<>>)
               ELSE Returns(TRUE, <<>>, <<parsed.value>>)

\* the longest text enumerated token by token
MaxTextLen == 5

\* the tokens every text up to MaxTextLen is built from
CoreTokens == {"{", "}", ":", "null", "1", QB, FOO}

\* longer texts, with the tokens left out above
LongTexts ==
  {<<"{", QB, ":", "{", "}", "}">>,
   <<"{", FOO, ":", "1", ",", QB, ":", "{", "}", "}">>,
   <<"{", QB, ":", "1", ",", QB, ":", "null", "}">>,
   <<"{", QB, ":", "0", "}">>, <<"{", QB, ":", "false", "}">>,
   <<"{", QB, ":", EMPTYSTR, "}">>, <<"{", QB, ":", "[", "]", "}">>,
   <<"[", "]">>, <<"[", "{", QB, ":", "1", "}", "]">>, <<"[", "1", ",", "]">>,
   <<"true">>, <<"false">>, <<"0">>, <<"not", "json">>}

Texts == SeqsUpTo(CoreTokens, MaxTextLen) \cup LongTexts

(***************************************************************************)
(* State                                                                   *)
(***************************************************************************)
VARIABLES
  json,           \* the plan handed to parseExplainJSON
  pc,             \* "ready" before the call, "returned" after it
  flowNodes,      \* the returned nodes (ReactFlow nodes, laid out)
  nodeIdCounter,  \* parser.ts:12, the module-level counter
  planNodes,      \* the returned planNodes
  edges,          \* the returned edges
  totalCost,      \* the returned totalCost
  input,          \* the text handed to validateExplainJSON
  validation,     \* what validateExplainJSON did with it
  history,        \* what the earlier parseExplainJSON calls were given and
                  \* returned, oldest first
  costArg,        \* the cost record handed to parseCost (<<>> when absent)
  costResult,     \* what parseCost returned for it (<<>> before it is called)
  calls,          \* the invocations that share nodeIdCounter: for each its
                  \* phase, the ids it is to allocate and those it has
  error,          \* CommandCenter.tsx:15, <<>> for null
  isValid,        \* CommandCenter.tsx:16
  pending,        \* the clipboard reads of handlePaste still in flight
  visualized      \* the last call of onVisualize: the input it was made
                  \* for and the data it was given (<<>> before any call)

\* the state of the input form besides its text
formVars == <<error, isValid, pending, visualized>>

\* the form as it is mounted, CommandCenter.tsx:14-16
FormIdle ==
  /\ error = <<>>
  /\ isValid = FALSE
  /\ pending = 0
  /\ visualized = <<>>

vars ==
  <<json, pc, flowNodes, nodeIdCounter, planNodes, edges, totalCost, input,
    validation, history, costArg, costResult, calls, formVars>>

\* no call of validateExplainJSON has been made
NotValidated == Returns(FALSE, <<>>, <<>>)

Init ==
  /\ json \in Plans
  /\ pc = "ready"
  /\ nodeIdCounter = 0
  /\ flowNodes = <<>>
  /\ planNodes = <<>>
  /\ edges = <<>>
  /\ totalCost = Zero
  /\ input = <<>>
  /\ FormIdle
  /\ validation = NotValidated
  /\ history = <<>>
  /\ costArg = <<>>
  /\ costResult = <<>>
  /\ calls = <<>>

\* ParseExplainJSON without nodeIdCounter = 0: ids go on from where the
\* previous call left the counter
ParseExplainJSONKeepCounter ==
  /\ pc = "ready"
  /\ LET out == MarkResult(parseQueryBlock(json.query_block, NoParent, "select",
                                           nodeIdCounter))
     IN  /\ nodeIdCounter' = out.nodeIdCounter
         /\ flowNodes' = out.nodes
         /\ planNodes' = out.planNodes
         /\ edges' = out.edges
         /\ totalCost' = out.totalCost
  /\ pc' = "returned"
  /\ UNCHANGED <<json, input, validation, history, costArg, costResult,
                 calls, formVars>>

\* one call parseExplainJSON(json), parser.ts:463-514
ParseExplainJSON ==
  /\ pc = "ready"
  /\ LET out == parseExplainJSON(json)
     IN  /\ nodeIdCounter' = out.nodeIdCounter
         /\ flowNodes' = out.nodes
         /\ planNodes' = out.planNodes
         /\ edges' = out.edges
         /\ totalCost' = out.totalCost
  /\ pc' = "returned"
  /\ UNCHANGED <<json, input, validation, history, costArg, costResult,
                 calls, formVars>>

Next == ParseExplainJSON

Spec == Init /\ [][Next]_vars

\* the entry check alone: a text, and one call validateExplainJSON(input)
InitValidate ==
  /\ input \in Texts
  /\ FormIdle
  /\ pc = "ready"
  /\ validation = NotValidated
  /\ json = [query_block |-> EmptyBlock]
  /\ nodeIdCounter = 0
  /\ flowNodes = <<>>
  /\ planNodes = <<>>
  /\ edges = <<>>
  /\ totalCost = Zero
  /\ history = <<>>
  /\ costArg = <<>>
  /\ costResult = <<>>
  /\ calls = <<>>

ValidateExplainJSON ==
  /\ pc = "ready"
  /\ validation' = validateExplainJSON(input)
  /\ pc' = "returned"
  /\ UNCHANGED <<json, flowNodes, nodeIdCounter, planNodes, edges, totalCost,
               input, history, costArg, costResult,
                 calls, formVars>>

NextValidate == ValidateExplainJSON

SpecValidate == InitValidate /\ [][NextValidate]_vars

(***************************************************************************)
(* Repeated calls: the caller parses one plan after another; the module    *)
(* variable nodeIdCounter lives on between the calls.                      *)
(***************************************************************************)
\* the number of parseExplainJSON calls in a run
MaxCalls == 3

\* the plans the caller chooses from: no node, one node, a derived table, a
\* join, a sort over a join, a union of two branches
CallPlans ==
  {[query_block |-> b] :
     b \in {EmptyBlock, TableBlock(Cheap), TableBlock(DerivedCheap),
            [EmptyBlock EXCEPT !.nested_loop = <<Items(<<Cheap, Costly>>)>>],
            [EmptyBlock EXCEPT
               !.ordering_operation =
                 <<OrderingOperation(<<TRUE, FALSE, QueryCost(Cost_25_00)>>,
                                     <<Items(<<Costly, Medium>>)>>, <<>>, <<>>)>>],
            [EmptyBlock EXCEPT
               !.union_result =
                 <<[using_temporary_table |-> TRUE,
                    query_specifications |->
                      << <<[query_block |-> TableBlock(Costly)],
                           [query_block |-> TableBlock(Medium)]>> >>]>>]}}

\* what the caller holds of the call that has just returned
LastCall ==
  [json |-> json, nodes |-> flowNodes, planNodes |-> planNodes,
   edges |-> edges, totalCost |-> totalCost]

InitCalls ==
  /\ json \in CallPlans
  /\ pc = "ready"
  /\ nodeIdCounter = 0
  /\ flowNodes = <<>>
  /\ planNodes = <<>>
  /\ edges = <<>>
  /\ totalCost = Zero
  /\ input = <<>>
  /\ FormIdle
  /\ validation = NotValidated
  /\ history = <<>>
  /\ costArg = <<>>
  /\ costResult = <<>>
  /\ calls = <<>>

\* the caller keeps the result and hands the next plan to parseExplainJSON
NextPlan ==
  /\ pc = "returned"
  /\ Len(history) + 1 < MaxCalls
  /\ history' = Append(history, LastCall)
  /\ json' \in CallPlans
  /\ pc' = "ready"
  /\ UNCHANGED <<flowNodes, nodeIdCounter, planNodes, edges, totalCost, input,
                 validation, costArg, costResult,
                 calls, formVars>>

NextCalls == ParseExplainJSON \/ NextPlan

SpecCalls == InitCalls /\ [][NextCalls]_vars

(***************************************************************************)
(* parseCost on its own: one call on a cost record or on none              *)
(***************************************************************************)
\* the decimal strings a cost field is given
CostStrings == {Cost_0_00, Cost_1_00, Cost_10_50, Cost_25_00, Cost_500_00}

\* a cost field: left out, or one of the strings
CostFields == {<<>>} \cup {<<c>> : c \in CostStrings}

\* CostInfo, part_003:21-28, with every combination of fields left out
CostInfos ==
  {<<>>}
  \cup {<<[query_cost |-> q, read_cost |-> r, eval_cost |-> e,
           prefix_cost |-> p, sort_cost |-> s]>> :
          q \in CostFields, r \in CostFields, e \in {<<>>, <<Cost_500_00>>},
          p \in CostFields, s \in {<<>>, <<Cost_500_00>>}}

InitCost ==
  /\ costArg \in CostInfos
  /\ costResult = <<>>
  /\ calls = <<>>
  /\ json = [query_block |-> EmptyBlock]
  /\ pc = "ready"
  /\ nodeIdCounter = 0
  /\ flowNodes = <<>>
  /\ planNodes = <<>>
  /\ edges = <<>>
  /\ totalCost = Zero
  /\ input = <<>>
  /\ FormIdle
  /\ validation = NotValidated
  /\ history = <<>>

\* one call parseCost(costInfo), parser.ts:18-22
ParseCost ==
  /\ pc = "ready"
  /\ costResult' = <<parseCost(costArg)>>
  /\ pc' = "returned"
  /\ UNCHANGED <<json, flowNodes, nodeIdCounter, planNodes, edges, totalCost,
                 input, validation, history, costArg, calls, formVars>>

NextCost == ParseCost

SpecCost == InitCost /\ [][NextCost]_vars

(***************************************************************************)
(* Invocations that interleave on nodeIdCounter.  parseExplainJSON runs to *)
(* its end once called; here two invocations take their steps on the       *)
(* module variable one at a time in any order: the reset of parser.ts:469  *)
(* and each generateId() of parser.ts:14-16.                               *)
(***************************************************************************)
\* the most nodes an invocation's plan emits
MaxAllocs == 3

Invocations == {"first", "second"}

\* an invocation not yet started whose plan emits need nodes
Idle(need) ==
  [phase |-> "idle", need |-> need, ids |-> <<>>, interfered |-> FALSE]

InitRace ==
  /\ calls \in [Invocations -> {Idle(n) : n \in 0..MaxAllocs}]
  /\ nodeIdCounter = 0
  /\ json = [query_block |-> EmptyBlock]
  /\ pc = "ready"
  /\ flowNodes = <<>>
  /\ planNodes = <<>>
  /\ edges = <<>>
  /\ totalCost = Zero
  /\ input = <<>>
  /\ FormIdle
  /\ validation = NotValidated
  /\ history = <<>>
  /\ costArg = <<>>
  /\ costResult = <<>>

\* calls after invocation p took a step that left it as next: every other
\* invocation that is between its reset and its return has been interfered with
AfterStep(p, next) ==
  [q \in Invocations |->
     IF q = p THEN next
     ELSE IF calls[q].phase = "running"
     THEN [calls[q] EXCEPT !.interfered = TRUE]
     ELSE calls[q]]

\* ResetCounter that leaves nodeIdCounter as the previous invocation left it
ResetCounterSkipped(p) ==
  /\ calls[p].phase = "idle"
  /\ calls' = AfterStep(p, [calls[p] EXCEPT !.phase = "running"])
  /\ UNCHANGED <<json, pc, flowNodes, nodeIdCounter, planNodes, edges,
                 totalCost, input, validation, history, costArg, costResult,
                 formVars>>

\* nodeIdCounter = 0, parser.ts:469
ResetCounter(p) ==
  /\ calls[p].phase = "idle"
  /\ nodeIdCounter' = 0
  /\ calls' = AfterStep(p, [calls[p] EXCEPT !.phase = "running"])
  /\ UNCHANGED <<json, pc, flowNodes, planNodes, edges, totalCost, input,
                 validation, history, costArg, costResult,
                 formVars>>

\* generateId(), parser.ts:14-16
GenerateId(p) ==
  /\ calls[p].phase = "running"
  /\ Len(calls[p].ids) < calls[p].need
  /\ nodeIdCounter' = nodeIdCounter + 1
  /\ calls' = AfterStep(p, [calls[p] EXCEPT
                              !.ids = Append(@, NodeId(nodeIdCounter + 1))])
  /\ UNCHANGED <<json, pc, flowNodes, planNodes, edges, totalCost, input,
                 validation, history, costArg, costResult,
                 formVars>>

\* the invocation returns its result
ReturnResult(p) ==
  /\ calls[p].phase = "running"
  /\ Len(calls[p].ids) = calls[p].need
  /\ calls' = [calls EXCEPT ![p].phase = "done"]
  /\ UNCHANGED <<json, pc, flowNodes, nodeIdCounter, planNodes, edges,
                 totalCost, input, validation, history, costArg, costResult,
                 formVars>>

NextRace ==
  \E p \in Invocations : ResetCounter(p) \/ GenerateId(p) \/ ReturnResult(p)

SpecRace == InitRace /\ [][NextRace]_vars

(***************************************************************************)
(* The input form, CommandCenter.tsx:13-54: the text in the textarea       *)
(* (input), the message under it (error) and the flag that enables the     *)
(* Visualize button (isValid).  Each handler runs to its end before the    *)
(* next one starts; a paste is two steps, the click that starts the        *)
(* clipboard read and the continuation after the read settled.             *)
(***************************************************************************)
\* value.trim(): the text without its leading and trailing whitespace
RECURSIVE Trim(_)
Trim(value) ==
  IF value = <<>> THEN <<>>
  ELSE IF Head(value) = WS THEN Trim(Tail(value))
  ELSE IF value[Len(value)] = WS THEN Trim(SubSeq(value, 1, Len(value) - 1))
  ELSE value

\* the token a string is written as
TokenOf(str) == CHOOSE tok \in StringTokens : StringOf(tok) = str

RECURSIVE Stringify(_)
RECURSIVE StringifyMembers(_, _, _)
RECURSIVE StringifyElements(_, _)

\* JSON.stringify(value, null, 2): a line break and indentation after an
\* opening bracket, after each comma and before the closing bracket, a
\* space after each colon; an empty object or array has none
Stringify(value) ==
  CASE value.t = "null" -> <<"null">>
    [] value.t = "boolean" -> IF value.b THEN <<"true">> ELSE <<"false">>
    [] value.t = "number" -> <<ToString(value.n)>>
    [] value.t = "string" -> <<TokenOf(value.s)>>
    [] value.t = "array" ->
         IF value.items = <<>> THEN <<"[", "]">>
         ELSE <<"[", WS>> \o StringifyElements(value.items, 1) \o <<WS, "]">>
    [] value.t = "object" ->
         IF value.keys = <<>> THEN <<"{", "}">>
         ELSE <<"{", WS>> \o StringifyMembers(value.keys, value.vals, 1)
                \o <<WS, "}">>

StringifyMembers(keys, vals, k) ==
  <<TokenOf(keys[k]), ":", WS>> \o Stringify(vals[k])
    \o (IF k = Len(keys) THEN <<>>
        ELSE <<",", WS>> \o StringifyMembers(keys, vals, k + 1))

StringifyElements(items, k) ==
  Stringify(items[k])
    \o (IF k = Len(items) THEN <<>>
        ELSE <<",", WS>> \o StringifyElements(items, k + 1))

\* the demo plan: a record with a query_block that is a record (its keys
\* are written foo, the one key other than query_block the texts have)
demoExplainJSON ==
  JObj(<<"query_block">>, <<JObj(<<"foo", "foo">>, <<JNum(1), JObj(<<>>, <<>>)>>)>>)

\* the texts typed into the textarea or read from the clipboard
FormTexts ==
  {<<>>, <<WS>>, <<WS, WS>>,
   <<"{", QB, ":", "{", "}", "}">>,
   <<WS, "{", QB, ":", WS, "1", "}", WS>>,
   <<"{", FOO, ":", "1", ",", QB, ":", "[", "]", "}">>,
   <<"{", "}">>, <<"{", QB, ":", "0", "}">>, <<"{", QB, ":", "null", "}">>,
   <<"null">>, <<WS, "null">>, <<"1">>, <<"[", "]">>,
   <<"{", QB>>, <<"{", QB, ":", "1", "}", "}">>, <<"not", "json">>}

\* the clipboard reads a user can have in flight at once
MaxReads == 2

\* handleInputChange without setIsValid(false): the flag keeps its value
\* when the new text is blank or invalid
handleInputChangeKeepValid(value) ==
  /\ input' = value
  /\ IF Trim(value) # <<>>
     THEN LET result == validateExplainJSON(value)
          IN  IF result.valid
              THEN /\ isValid' = TRUE
                   /\ error' = <<>>
              ELSE /\ isValid' = isValid
                   /\ error' = IF result.error = <<>> \/ result.error[1] = ""
                               THEN <<"Invalid JSON">>
                               ELSE result.error
     ELSE /\ isValid' = isValid
          /\ error' = <<>>

\* handleInputChange(value), CommandCenter.tsx:18-31
handleInputChange(value) ==
  /\ input' = value
  /\ IF Trim(value) # <<>>
     THEN LET result == validateExplainJSON(value)
          IN  IF result.valid
              THEN /\ isValid' = TRUE
                   /\ error' = <<>>
              ELSE /\ isValid' = FALSE
                   /\ error' = IF result.error = <<>> \/ result.error[1] = ""
                               THEN <<"Invalid JSON">>
                               ELSE result.error
     ELSE /\ isValid' = FALSE
          /\ error' = <<>>

\* what no handler of the form touches
parserVars ==
  <<json, pc, flowNodes, nodeIdCounter, planNodes, edges, totalCost,
    validation, history, costArg, costResult, calls>>

InitForm ==
  /\ input = <<>>
  /\ FormIdle
  /\ pc = "ready"
  /\ validation = NotValidated
  /\ json = [query_block |-> EmptyBlock]
  /\ nodeIdCounter = 0
  /\ flowNodes = <<>>
  /\ planNodes = <<>>
  /\ edges = <<>>
  /\ totalCost = Zero
  /\ history = <<>>
  /\ costArg = <<>>
  /\ costResult = <<>>
  /\ calls = <<>>

\* the textarea's onChange, CommandCenter.tsx:142
OnChange(value) ==
  /\ handleInputChange(value)
  /\ UNCHANGED <<pending, visualized, parserVars>>

\* handleLoadDemo, CommandCenter.tsx:40-45
HandleLoadDemo ==
  /\ input' = Stringify(demoExplainJSON)
  /\ isValid' = TRUE
  /\ error' = <<>>
  /\ UNCHANGED <<pending, visualized, parserVars>>

\* handlePaste up to its await, CommandCenter.tsx:47-49: the read starts
HandlePaste ==
  /\ pending < MaxReads
  /\ pending' = pending + 1
  /\ UNCHANGED <<input, error, isValid, visualized, parserVars>>

\* a clipboard read resolved with text, CommandCenter.tsx:49-50
ReadTextResolved(text) ==
  /\ pending > 0
  /\ pending' = pending - 1
  /\ handleInputChange(text)
  /\ UNCHANGED <<visualized, parserVars>>

\* a clipboard read was rejected, CommandCenter.tsx:51-53
ReadTextRejected ==
  /\ pending > 0
  /\ pending' = pending - 1
  /\ error' = <<"Failed to read clipboard">>
  /\ UNCHANGED <<input, isValid, visualized, parserVars>>

\* a click on the Visualize button, which is disabled unless isValid
\* (CommandCenter.tsx:197), runs handleVisualize, CommandCenter.tsx:33-38
HandleVisualize ==
  /\ isValid
  /\ LET result == validateExplainJSON(input)
     IN  visualized' = IF result.valid /\ result.data # <<>>
                       THEN <<[input |-> input, data |-> result.data[1]]>>
                       ELSE visualized
  /\ UNCHANGED <<input, error, isValid, pending, parserVars>>

NextForm ==
  \/ \E value \in FormTexts : OnChange(value)
  \/ HandleLoadDemo
  \/ HandlePaste
  \/ \E text \in FormTexts : ReadTextResolved(text)
  \/ ReadTextRejected
  \/ HandleVisualize

SpecForm == InitForm /\ [][NextForm]_vars

(***************************************************************************)
(* Vocabulary of the properties                                            *)
(***************************************************************************)
Returned == pc = "returned"

NodeIds == {planNodes[i].id : i \in 1..Len(planNodes)}

NodeOf(id) == planNodes[CHOOSE i \in 1..Len(planNodes) : planNodes[i].id = id]

\* the nodes that have an edge whose target is id
Producers(id) == {edges[k].source : k \in {j \in 1..Len(edges) : edges[j].target = id}}

\* the nodes id has an edge to
Consumers(id) == {edges[k].target : k \in {j \in 1..Len(edges) : edges[j].source = id}}

ChildrenOf(node) == {node.children[k] : k \in 1..Len(node.children)}

EdgePairs == {<<edges[k].source, edges[k].target>> : k \in 1..Len(edges)}

Marked == {id \in NodeIds : NodeOf(id).isCriticalPath}

\* a root in the sense of the edge list: no outgoing edge
EdgeRoots == {id \in NodeIds : Consumers(id) = {}}

\* own cost plus the greatest cumulative cost among the producers (0 for a leaf)
RECURSIVE EdgeCumulativeCost(_)
EdgeCumulativeCost(id) ==
  LET best[S \in SUBSET Producers(id)] ==
        IF S = {} THEN Zero
        ELSE LET x == CHOOSE y \in S : TRUE
             IN  JsMax2(best[S \ {x}], EdgeCumulativeCost(x))
  IN  JsAdd(NodeOf(id).cost, best[Producers(id)])

\* the top-level block of the input
Top == json.query_block

NoStage(b) ==
  /\ b.ordering_operation = <<>> /\ b.grouping_operation = <<>>
  /\ b.duplicates_removal = <<>> /\ b.union_result = <<>>

NoSubPlans(b) ==
  /\ b.subqueries = <<>> /\ b.optimized_away_subqueries = <<>>
  /\ b.attached_subqueries = <<>> /\ b.query_block = <<>>

\* the top level holds only a join list
OnlyJoin(b) == NoStage(b) /\ NoSubPlans(b) /\ b.table = <<>> /\ b.nested_loop # <<>>

\* the top level holds only a table-access record
OnlyTable(b) ==
  NoStage(b) /\ NoSubPlans(b) /\ b.nested_loop = <<>> /\ b.table # <<>>
  /\ b.message = <<>>

\* the top level is an ordering stage that wraps a table and nothing else
OrderingOverTable(b) ==
  /\ b.ordering_operation # <<>>
  /\ b.ordering_operation[1].table # <<>>
  /\ b.ordering_operation[1].grouping_operation = <<>>
  /\ \/ b.ordering_operation[1].nested_loop = <<>>
     \/ b.ordering_operation[1].nested_loop[1] = <<>>

NoMaterialized(t) == t.materialized_from_subquery = <<>>

(***************************************************************************)
(* C1  Referential integrity: every edge's source and target, and every id *)
(* in a children list, is the id of a node of the same parse.              *)
(***************************************************************************)
C1_ReferentialIntegrity ==
  Returned =>
    /\ \A k \in 1..Len(edges) :
         edges[k].source \in NodeIds /\ edges[k].target \in NodeIds
    /\ \A i \in 1..Len(planNodes) : ChildrenOf(planNodes[i]) \subseteq NodeIds

\* a parse with a stage, a join under it and a derived table: edges at three
\* levels and non-empty children lists
C1_Witness ==
  /\ Returned
  /\ Len(edges) >= 4
  /\ \E i \in 1..Len(planNodes) :
       planNodes[i].type = "table" /\ Len(planNodes[i].children) > 0
  /\ \E i \in 1..Len(planNodes) : planNodes[i].type = "join"

(***************************************************************************)
(* C2  The claim: for every node, children is exactly the set of nodes     *)
(* that have an edge whose target is that node.                            *)
(***************************************************************************)
C2_ChildrenAreProducers ==
  Returned =>
    \A i \in 1..Len(planNodes) :
      ChildrenOf(planNodes[i]) = Producers(planNodes[i].id)

(***************************************************************************)
(* C3  The claim: when the parse yields a node, the marked nodes form one  *)
(* path connected by edges whose top is the root (no outgoing edge) with   *)
(* the greatest cumulative cost among all roots.                           *)
(***************************************************************************)
\* the marked nodes are one edge-connected chain, and top is its upper end
MarkedPathFrom(top) ==
  /\ top \in Marked
  /\ \A id \in Marked \ {top} :
       \E c \in Consumers(id) : c \in Marked
  /\ \A a \in Marked : \A b \in Marked :
       (a # b) => (Consumers(a) \cap Consumers(b) \cap Marked = {})
  /\ Consumers(top) \cap Marked = {}

C3_OneCriticalPathFromBestRoot ==
  (Returned /\ Len(planNodes) > 0) =>
    \E top \in EdgeRoots :
      /\ MarkedPathFrom(top)
      /\ \A r \in EdgeRoots :
           ~EdgeCumulativeCost(r).nan /\ ~EdgeCumulativeCost(top).nan
           /\ EdgeCumulativeCost(r).v <= EdgeCumulativeCost(top).v

(***************************************************************************)
(* C4  The claim: a text that fails JSON parsing is rejected with the      *)
(* 'Invalid JSON' reason, and every text that parses as JSON but lacks     *)
(* query_block (a JSON value that is not an object, such as null,          *)
(* included) is rejected with the 'missing query_block' reason.            *)
(***************************************************************************)
\* the messages a SyntaxError or TypeError carries here
ErrorMessages ==
  {"Unexpected token", "Unexpected end of JSON input",
   "Cannot read properties of null (reading 'query_block')"}

MalformedReason(result) ==
  /\ ~result.threw /\ ~result.valid
  /\ \E m \in ErrorMessages : result.error = <<"Invalid JSON: " \o m>>

MissingFieldReason(result) ==
  /\ ~result.threw /\ ~result.valid
  /\ result.error = <<"Invalid MySQL EXPLAIN JSON: missing query_block">>

\* the JSON value v is an object with a query_block member
HasQueryBlock(v) ==
  v.t = "object" /\ \E k \in 1..Len(v.keys) : v.keys[k] = "query_block"

C4_ReasonsDistinguished ==
  Returned =>
    LET parsed == JSONParse(input)
    IN  /\ parsed.threw => MalformedReason(validation)
        /\ (~parsed.threw /\ ~HasQueryBlock(parsed.value)) =>
             MissingFieldReason(validation)

(***************************************************************************)
(* C5  For every text validateExplainJSON returns either valid = true with *)
(* data (the parsed record, which has a query_block) and no error, or      *)
(* valid = false with a non-empty error and no data; it never throws.      *)
(***************************************************************************)
C5_AcceptedOrRejected ==
  Returned =>
    /\ ~validation.threw
    /\ \/ /\ validation.valid
          /\ validation.error = <<>>
          /\ validation.data # <<>>
          /\ HasQueryBlock(validation.data[1])
          /\ validation.data[1] = JSONParse(input).value
       \/ /\ ~validation.valid
          /\ validation.error # <<>>
          /\ validation.error[1] # ""
          /\ validation.data = <<>>

\* a text with a query_block record is accepted with its parsed value
C5_Witness ==
  /\ Returned
  /\ input = <<"{", QB, ":", "{", "}", "}">>
  /\ validation.valid
  /\ validation.data = <<JObj(<<"query_block">>, <<JObj(<<>>, <<>>)>>)>>

(***************************************************************************)
(* C6  totalCost is the flat sum of the cost field over all returned nodes,*)
(* each node counted once; for one join over tables it is the join's cost  *)
(* plus every table's cost.                                                *)
(***************************************************************************)
\* the sum of the costs of the returned nodes from position i on
RECURSIVE SumCostsFrom(_)
SumCostsFrom(i) ==
  IF i > Len(planNodes) THEN Zero
  ELSE JsAdd(planNodes[i].cost, SumCostsFrom(i + 1))

\* the sum of the extracted costs of the tables of a join list, from item i on
RECURSIVE SumItemCostsFrom(_, _)
SumItemCostsFrom(items, i) ==
  IF i > Len(items) THEN Zero
  ELSE JsAdd(parseCost(items[i].table.cost_info), SumItemCostsFrom(items, i + 1))

\* the top level is one join list of at least two tables, none of them derived
JoinOfLeafTables ==
  /\ OnlyJoin(Top)
  /\ Len(Top.nested_loop[1]) >= 2
  /\ \A i \in 1..Len(Top.nested_loop[1]) : NoMaterialized(Top.nested_loop[1][i].table)

C6_TotalCostIsFlatSum ==
  Returned =>
    /\ totalCost = SumCostsFrom(1)
    /\ JoinOfLeafTables =>
         totalCost = JsAdd(planNodes[1].cost, SumItemCostsFrom(Top.nested_loop[1], 1))

\* the join of the 1.00 table and the 500.00 table: 501.00 + 1.00 + 500.00
C6_Witness ==
  /\ Returned
  /\ JoinOfLeafTables
  /\ Len(planNodes) = 3
  /\ planNodes[1].cost = Num(501 * Scale)
  /\ totalCost = Num(1002 * Scale)

(***************************************************************************)
(* C7  A top-level join list of N >= 2 tables, none declaring a            *)
(* materialized subquery, parses to N + 1 nodes (one 'Nested Loop Join'    *)
(* node, then N table nodes) and N edges, one from each table node to the  *)
(* join node; the join's cost is the sum of the tables' extracted costs.   *)
(***************************************************************************)
C7_JoinOfNTables ==
  (Returned /\ JoinOfLeafTables) =>
    LET items == Top.nested_loop[1]
        N     == Len(items)
    IN  /\ Len(planNodes) = N + 1
        /\ planNodes[1].type = "join"
        /\ planNodes[1].label = "Nested Loop Join"
        /\ \A i \in 1..N :
             /\ planNodes[i + 1].type = "table"
             /\ planNodes[i + 1].table = items[i].table.table_name
        /\ Cardinality({planNodes[i].id : i \in 1..(N + 1)}) = N + 1
        /\ Len(edges) = N
        /\ \A i \in 1..N :
             /\ edges[i].source = planNodes[i + 1].id
             /\ edges[i].target = planNodes[1].id
        /\ planNodes[1].cost = SumItemCostsFrom(items, 1)

\* a join of the longest list enumerated, with tables of different costs
C7_Witness ==
  /\ Returned
  /\ JoinOfLeafTables
  /\ Len(Top.nested_loop[1]) = MaxItems
  /\ Len(planNodes) = MaxItems + 1
  /\ \E i \in 2..Len(planNodes) : planNodes[i].cost # planNodes[2].cost

(***************************************************************************)
(* C8  A plan whose top level holds only a single table-access record      *)
(* parses to exactly one node of kind table and zero edges; its cost is    *)
(* the read cost when the cost record has no query cost, its rows is the   *)
(* row count (examined, else produced, else 0), and accessType, table      *)
(* name, key, key parts and condition are copied unchanged.                *)
(***************************************************************************)
C8_Body ==
  LET t == Top.table[1]
  IN  /\ Len(planNodes) = 1
      /\ Len(edges) = 0
      /\ planNodes[1].type = "table"
      /\ (/\ t.cost_info # <<>>
          /\ t.cost_info[1].query_cost = <<>>
          /\ t.cost_info[1].read_cost # <<>>)
           => planNodes[1].cost = ParseFloat(t.cost_info[1].read_cost[1])
      /\ (t.cost_info = <<>>) => planNodes[1].cost = Zero
      /\ planNodes[1].rows =
           (IF t.rows_examined_per_scan \notin {<<>>, <<0>>}
            THEN t.rows_examined_per_scan[1]
            ELSE IF t.rows_produced_per_join # <<>>
            THEN t.rows_produced_per_join[1]
            ELSE 0)
      /\ planNodes[1].accessType = t.access_type
      /\ planNodes[1].table = t.table_name
      /\ planNodes[1].key = t.key
      /\ planNodes[1].keyParts = t.used_key_parts
      /\ planNodes[1].condition = t.attached_condition

\* C8 as written: any single table-access record at the top level yields one
\* table node and no edge, with the cost, rows and copied fields above
C8_AnySingleTable == (Returned /\ OnlyTable(Top)) => C8_Body

\* C8 for a record that declares no materialized subquery: one table node, no
\* edge, with the cost, rows and copied fields above
C8_SingleLeafTable ==
  (Returned /\ OnlyTable(Top) /\ NoMaterialized(Top.table[1])) => C8_Body

\* the case of the repository's test: access ALL, 100 rows, read cost 10.50
C8_Witness ==
  /\ Returned
  /\ OnlyTable(Top)
  /\ NoMaterialized(Top.table[1])
  /\ Top.table[1].cost_info = ReadCost(Cost_10_50)
  /\ Top.table[1].rows_produced_per_join = <<50>>
  /\ planNodes[1].cost = Num(1050)
  /\ planNodes[1].rows = 100
  /\ planNodes[1].accessType = <<"ALL">>

(***************************************************************************)
(* C9  A plan whose top level is an ordering stage wrapping a single table *)
(* parses to exactly two nodes, a sort node (tagged 'Using filesort'       *)
(* exactly when the stage's using_filesort flag is set) followed by a      *)
(* table node, and exactly one edge, from the table node to the sort node. *)
(***************************************************************************)
C9_Body ==
  LET op == Top.ordering_operation[1]
  IN  /\ Len(planNodes) = 2
      /\ planNodes[1].type = "sort"
      /\ planNodes[2].type = "table"
      /\ planNodes[2].table = op.table[1].table_name
      /\ (\E k \in 1..Len(planNodes[1].extra) :
            planNodes[1].extra[k] = "Using filesort") <=> op.using_filesort
      /\ Len(edges) = 1
      /\ edges[1].source = planNodes[2].id
      /\ edges[1].target = planNodes[1].id
      /\ planNodes[1].id # planNodes[2].id

\* C9 as written: an ordering stage over any single table yields the sort
\* node, the table node and the one edge table -> sort
C9_SortOverAnyTable == (Returned /\ OrderingOverTable(Top)) => C9_Body

\* C9 for a table that declares no materialized subquery: the sort node, the
\* table node and the one edge table -> sort
C9_SortOverLeafTable ==
  (Returned /\ OrderingOverTable(Top)
   /\ NoMaterialized(Top.ordering_operation[1].table[1])) => C9_Body

C9_Witness ==
  /\ Returned
  /\ OrderingOverTable(Top)
  /\ NoMaterialized(Top.ordering_operation[1].table[1])
  /\ Top.ordering_operation[1].using_filesort
  /\ planNodes[1].extra = <<"Using filesort">>
  /\ EdgePairs = {<<planNodes[2].id, planNodes[1].id>>}

(***************************************************************************)
(* C10  For a top-level join of two tables of which one costs strictly     *)
(* more than the other, in either input order, the more expensive table's  *)
(* node is marked isCriticalPath and the cheaper table's node is not.      *)
(***************************************************************************)
\* the top level is a join list of exactly two tables
JoinOfTwo == OnlyJoin(Top) /\ Len(Top.nested_loop[1]) = 2

\* the ids of the nodes that feed the join node, in edge order: the two tables
JoinInputs ==
  LET FeedsJoin(e) == e.target = planNodes[1].id
      feeding      == SelectSeq(edges, FeedsJoin)
  IN  [k \in 1..Len(feeding) |-> feeding[k].source]

C10_Body ==
  LET c1 == parseCost(Top.nested_loop[1][1].table.cost_info)
      c2 == parseCost(Top.nested_loop[1][2].table.cost_info)
  IN  (~c1.nan /\ ~c2.nan /\ c1.v # c2.v) =>
        /\ Len(JoinInputs) = 2
        /\ NodeOf(JoinInputs[1]).isCriticalPath <=> (c1.v > c2.v)
        /\ NodeOf(JoinInputs[2]).isCriticalPath <=> (c2.v > c1.v)

\* C10 as written: of any two joined tables the one with the greater cost is
\* marked and the other is not
C10_CostlierOfAnyTwo == (Returned /\ JoinOfTwo) => C10_Body

\* C10 for tables that declare no materialized subquery: the one with the
\* greater cost is marked and the other is not
C10_CostlierOfTwoLeafTables == (Returned /\ JoinOfTwo /\ JoinOfLeafTables) => C10_Body

\* the repository's test: the cheap table first, the expensive one second
C10_Witness ==
  /\ Returned /\ JoinOfTwo /\ JoinOfLeafTables
  /\ planNodes[2].cost = Num(1 * Scale) /\ planNodes[3].cost = Num(500 * Scale)
  /\ ~planNodes[2].isCriticalPath /\ planNodes[3].isCriticalPath

(***************************************************************************)
(* C11  Parsing the same input again, whatever was parsed in between,      *)
(* returns the same nodes (kinds, labels, costs, rows, tags, marks,        *)
(* positions, ids in the same order), the same edges and the same total:   *)
(* the result of a parse depends only on its input.                        *)
(***************************************************************************)
C11_SameInputSameResult ==
  Returned =>
    \A k \in 1..Len(history) :
      history[k].json = json => history[k] = LastCall

\* the join parsed first, another plan second, the join again third
C11_Witness ==
  /\ Returned
  /\ Len(history) = 2
  /\ history[1].json = json
  /\ history[2].json # json
  /\ Len(history[2].planNodes) > 0
  /\ Len(planNodes) = 3
  /\ history[1].planNodes = planNodes

(***************************************************************************)
(* C15  The claim: two successive parses of the same input return graphs   *)
(* that are structurally identical but whose node ids are numbered         *)
(* differently (ids are not reused across parses).                         *)
(***************************************************************************)
\* the node list with the ids left out of it
Unnumbered(ns) == [i \in 1..Len(ns) |-> [ns[i] EXCEPT !.id = "", !.children = <<>>]]

C15_IdsNotReused ==
  (Returned /\ Len(history) > 0 /\ history[Len(history)].json = json
     /\ Len(planNodes) > 0) =>
    /\ Unnumbered(history[Len(history)].planNodes) = Unnumbered(planNodes)
    /\ IdsOf(history[Len(history)].planNodes) # IdsOf(planNodes)

(***************************************************************************)
(* C12  After layout no two distinct nodes that share a y have             *)
(* overlapping horizontal spans [x, x + nodeWidth]; this covers siblings   *)
(* and the subtrees of several roots.                                      *)
(***************************************************************************)
SpansOverlap(a, b) ==
  /\ a.position.x <= b.position.x + nodeWidth
  /\ b.position.x <= a.position.x + nodeWidth

C12_NoOverlapInARow ==
  Returned =>
    \A i, j \in 1..Len(flowNodes) :
      (i # j /\ flowNodes[i].position.y = flowNodes[j].position.y) =>
        ~SpansOverlap(flowNodes[i], flowNodes[j])

(***************************************************************************)
(* C13  The claim: after layout, for every edge from a producer to its     *)
(* consumer the consumer's y is strictly greater than the producer's y.    *)
(***************************************************************************)
FlowNodeOf(nodeId) ==
  flowNodes[CHOOSE i \in 1..Len(flowNodes) : flowNodes[i].id = nodeId]

C14_IdsInEmissionOrder ==
  Returned =>
    /\ \A i, j \in 1..Len(planNodes) :
         planNodes[i].id = planNodes[j].id => i = j
    /\ \A i \in 1..Len(planNodes) : planNodes[i].id = NodeId(i)

\* a join of three inputs one of which is a derived table: the join, its
\* tables, and a node one level below a table
C14_Witness ==
  /\ Returned
  /\ Len(planNodes) >= 5
  /\ planNodes[1].type = "join"
  /\ Len(planNodes[1].children) > Cardinality(Producers(planNodes[1].id))
  /\ planNodes[Len(planNodes)].id = NodeId(Len(planNodes))

(***************************************************************************)
(* C16  The claim: when the selected cost field of a record is present but *)
(* no number, the parse does not fail and the node's cost is 0; the total  *)
(* cost stays the numeric sum of the other nodes' costs.                   *)
(***************************************************************************)
\* the selected cost field of a table record is present and no number
NonNumericCost(t) ==
  /\ t.cost_info # <<>>
  /\ TruthyChars(FirstCost(t.cost_info[1]))
  /\ ParseFloat(FirstCost(t.cost_info[1])[1]).nan

C16_NonNumericCostIsZero ==
  /\ (Returned /\ OnlyTable(Top) /\ NonNumericCost(Top.table[1])) =>
       /\ Len(planNodes) >= 1
       /\ planNodes[1].cost = Zero
       /\ ~totalCost.nan
  /\ (Returned /\ JoinOfLeafTables) =>
       /\ \A i \in 1..Len(Top.nested_loop[1]) :
            NonNumericCost(Top.nested_loop[1][i].table) =>
              planNodes[i + 1].cost = Zero
       /\ ~totalCost.nan

(***************************************************************************)
(* C17  A level that matches no recognized shape emits exactly one node    *)
(* when it carries a message: the label is the message verbatim, the kind  *)
(* is select at the top level and subquery below it, cost and rows are 0,  *)
(* and an edge leads to the attachment point when there is one.  Without a *)
(* message it emits no node; an empty top-level plan returns empty lists   *)
(* and a total cost of 0.                                                  *)
(***************************************************************************)
\* the level holds none of the fields the parser recognizes
NoShape(b) ==
  /\ NoStage(b) /\ NoSubPlans(b)
  /\ b.nested_loop = <<>> /\ b.table = <<>>

\* of a list of references to levels, those that hold no shape but a message
MessageLevels(refs) ==
  LET MessageOnly(r) == NoShape(r.query_block) /\ r.query_block.message # <<>>
  IN  SelectSeq(refs, MessageOnly)

AllNoShape(refs) == \A k \in 1..Len(refs) : NoShape(refs[k].query_block)

\* the nodes from position first on are the message nodes of levels, of the
\* given kind, each with an edge to attachment unless that is NoParent
MessageNodesFrom(first, levels, kind, attachment) ==
  /\ Len(planNodes) = first - 1 + Len(levels)
  /\ \A k \in 1..Len(levels) :
       LET node == planNodes[first - 1 + k]
       IN  /\ node.label = levels[k].query_block.message[1]
           /\ node.type = kind
           /\ node.cost = Zero
           /\ node.rows = 0
           /\ Consumers(node.id) =
                (IF attachment = NoParent THEN {} ELSE {attachment})
           /\ Producers(node.id) = {}

C17_TopLevelAndBranches ==
  \* the top level itself
  /\ (Returned /\ NoShape(Top) /\ Top.message # <<>>) =>
       /\ MessageNodesFrom(1, <<json>>, "select", NoParent)
       /\ edges = <<>>
  /\ (Returned /\ NoShape(Top) /\ Top.message = <<>>) =>
       /\ planNodes = <<>> /\ flowNodes = <<>> /\ edges = <<>>
       /\ totalCost = Zero
  \* subquery levels of a top level: no attachment point
  /\ (Returned /\ NoStage(Top) /\ Top.nested_loop = <<>> /\ Top.table = <<>>
        /\ Top.message = <<>>
        /\ Top.optimized_away_subqueries = <<>>
        /\ Top.attached_subqueries = <<>> /\ Top.query_block = <<>>
        /\ Top.subqueries # <<>> /\ AllNoShape(Top.subqueries[1])) =>
       MessageNodesFrom(1, MessageLevels(Top.subqueries[1]), "subquery", NoParent)
  \* branches of a union: attached to the union node
  /\ (Returned /\ Top.ordering_operation = <<>> /\ Top.grouping_operation = <<>>
        /\ Top.duplicates_removal = <<>> /\ Top.union_result # <<>>
        /\ Top.union_result[1].query_specifications # <<>>
        /\ AllNoShape(Top.union_result[1].query_specifications[1])) =>
       /\ planNodes[1].type = "union"
       /\ MessageNodesFrom(2,
             MessageLevels(Top.union_result[1].query_specifications[1]),
             "select", planNodes[1].id)

\* the level a derived table materializes is attached to the table's node and
\* is of kind subquery
C17_BelowTable ==
  (Returned /\ OnlyTable(Top) /\ Top.table[1].materialized_from_subquery # <<>>
     /\ AllNoShape(Top.table[1].materialized_from_subquery)) =>
    /\ planNodes[1].type = "table"
    /\ MessageNodesFrom(2, MessageLevels(Top.table[1].materialized_from_subquery),
                        "subquery", planNodes[1].id)

\* C17: top level, subquery levels, union branches and materialized levels
C17_MessageOrNothing == C17_TopLevelAndBranches /\ C17_BelowTable

\* a union of three branches: two carry only a message, one carries nothing
C17_Witness ==
  /\ Returned
  /\ Top.union_result # <<>>
  /\ Top.union_result[1].query_specifications # <<>>
  /\ Len(Top.union_result[1].query_specifications[1]) = 3
  /\ AllNoShape(Top.union_result[1].query_specifications[1])
  /\ Len(MessageLevels(Top.union_result[1].query_specifications[1])) = 2
  /\ Len(planNodes) = 3
  /\ Len(edges) = 2

(***************************************************************************)
(* C18  The dispatch takes the first shape that matches, in the order      *)
(* ordering > grouping > duplicate removal > union > the rest: the fields  *)
(* of lower priority on the same level produce no nodes and no edges.      *)
(***************************************************************************)
\* the level with nothing left but the field the dispatch is to take
FirstShapeOnly(b) ==
  IF b.ordering_operation # <<>>
  THEN [EmptyBlock EXCEPT !.ordering_operation = b.ordering_operation]
  ELSE IF b.grouping_operation # <<>>
  THEN [EmptyBlock EXCEPT !.grouping_operation = b.grouping_operation]
  ELSE IF b.duplicates_removal # <<>>
  THEN [EmptyBlock EXCEPT !.duplicates_removal = b.duplicates_removal]
  ELSE IF b.union_result # <<>>
  THEN [EmptyBlock EXCEPT !.union_result = b.union_result]
  ELSE b

\* the kind of the node a stage emits first
FirstKind(b) ==
  IF b.ordering_operation # <<>> THEN "sort"
  ELSE IF b.grouping_operation # <<>> THEN "group"
  ELSE IF b.duplicates_removal # <<>> THEN "distinct"
  ELSE "union"

SameAsParseOf(out) ==
  /\ planNodes = out.planNodes
  /\ flowNodes = out.nodes
  /\ edges = out.edges
  /\ totalCost = out.totalCost

C18_FirstShapeOnly ==
  (Returned /\ ~NoStage(Top)) =>
    /\ Len(planNodes) >= 1
    /\ planNodes[1].type = FirstKind(Top)
    /\ SameAsParseOf(parseExplainJSON([query_block |-> FirstShapeOnly(Top)]))

\* a level that holds all four stages, a join list, a table, a subquery and a
\* message: the sort over its table is all that is emitted
C18_Witness ==
  /\ Returned
  /\ Top.ordering_operation # <<>> /\ Top.grouping_operation # <<>>
  /\ Top.duplicates_removal # <<>> /\ Top.union_result # <<>>
  /\ Top.nested_loop # <<>> /\ Top.table # <<>>
  /\ Top.subqueries # <<>> /\ Top.message # <<>>
  /\ Len(planNodes) = 2
  /\ planNodes[1].type = "sort"
  /\ planNodes[2].type = "table"

(***************************************************************************)
(* C19  The claim: for every join list of N >= 2 tables, lists in which    *)
(* some estimate is 0 or absent included, the join node's rows is the      *)
(* product, in input order, of each table's produced-row estimate (the     *)
(* examined-row estimate when that is absent or 0, then 0).                *)
(***************************************************************************)
RECURSIVE RowsProduct(_, _)
RowsProduct(items, n) ==
  IF n = 0 THEN 1 ELSE RowsProduct(items, n - 1) * ItemRows(items[n].table)

C19_RowsIsProduct ==
  (Returned /\ OnlyJoin(Top) /\ Len(Top.nested_loop[1]) >= 2) =>
    /\ planNodes[1].type = "join"
    /\ planNodes[1].rows = RowsProduct(Top.nested_loop[1], Len(Top.nested_loop[1]))

(***************************************************************************)
(* C20  For every combination of present and absent cost fields, the cost  *)
(* parseCost extracts is the numeric value of the first present field in   *)
(* the order query cost, read cost, prefix cost; it is 0 when none of the  *)
(* three is present or the record is absent; sort cost and evaluation cost *)
(* never contribute.                                                       *)
(***************************************************************************)
\* the value of a decimal string of the form d+ . d d, in hundredths
RECURSIVE DecimalValue(_, _)
DecimalValue(chars, n) ==
  IF n = 0 THEN 0
  ELSE IF chars[n] = "." THEN DecimalValue(chars, n - 1)
  ELSE 10 * DecimalValue(chars, n - 1) + DigitVal(chars[n])

C20_FirstPresentCost ==
  (pc = "returned" /\ costResult # <<>>) =>
    IF costArg = <<>> THEN costResult[1] = Zero
    ELSE LET ci == costArg[1]
         IN  IF ci.query_cost # <<>>
             THEN costResult[1] = Num(DecimalValue(ci.query_cost[1], Len(ci.query_cost[1])))
             ELSE IF ci.read_cost # <<>>
             THEN costResult[1] = Num(DecimalValue(ci.read_cost[1], Len(ci.read_cost[1])))
             ELSE IF ci.prefix_cost # <<>>
             THEN costResult[1] = Num(DecimalValue(ci.prefix_cost[1], Len(ci.prefix_cost[1])))
             ELSE costResult[1] = Zero

\* query cost left out, read cost and prefix cost present with different
\* values, sort cost and evaluation cost present: the read cost is extracted
C20_Witness ==
  /\ pc = "returned"
  /\ costArg # <<>>
  /\ costArg[1].query_cost = <<>>
  /\ costArg[1].read_cost = <<Cost_10_50>>
  /\ costArg[1].prefix_cost = <<Cost_25_00>>
  /\ costArg[1].sort_cost # <<>>
  /\ costArg[1].eval_cost # <<>>
  /\ costResult = <<Num(1050)>>

(***************************************************************************)
(* C21  For every combination of flags on a table record, the table node's *)
(* tags are exactly the subsequence of Using index, Using temporary, Using *)
(* filesort, Using index condition, <message> whose flag or field is set,  *)
(* in that order; an unset flag emits nothing.                             *)
(***************************************************************************)
\* the five tags in their fixed order, each with whether the record sets it
TagCandidates(t) ==
  << [set |-> t.using_index, tag |-> "Using index"],
     [set |-> t.using_temporary, tag |-> "Using temporary"],
     [set |-> t.using_filesort, tag |-> "Using filesort"],
     [set |-> t.using_index_condition # <<>>, tag |-> "Using index condition"],
     [set |-> t.message # <<>>,
      tag |-> IF t.message # <<>> THEN t.message[1] ELSE ""] >>

ExpectedTags(t) ==
  LET IsSet(c) == c.set
      chosen   == SelectSeq(TagCandidates(t), IsSet)
  IN  [k \in 1..Len(chosen) |-> chosen[k].tag]

C21_TagsInFixedOrder ==
  (Returned /\ OnlyTable(Top) /\ NoMaterialized(Top.table[1])) =>
    /\ planNodes[1].type = "table"
    /\ planNodes[1].extra = ExpectedTags(Top.table[1])

\* index and filesort set, temporary unset, an index condition and a message
C21_Witness ==
  /\ Returned
  /\ OnlyTable(Top)
  /\ Top.table[1].using_index /\ ~Top.table[1].using_temporary
  /\ Top.table[1].using_filesort
  /\ Top.table[1].using_index_condition # <<>>
  /\ Top.table[1].message = <<"Impossible WHERE">>
  /\ planNodes[1].extra =
       <<"Using index", "Using filesort", "Using index condition",
         "Impossible WHERE">>

(***************************************************************************)
(* C22  A level with a grouping stage and no ordering stage emits a group  *)
(* node labelled GROUP BY as its first node, tagged Using filesort and/or  *)
(* Using temporary table per the stage's own flags, in that order; what    *)
(* the stage nests is attached beneath it: the join node or single table   *)
(* of the join list, the table and the buffer node each have an edge to    *)
(* the group node, and the buffer's contents have an edge to the buffer.   *)
(***************************************************************************)
\* the kinds of the nodes that a join list and a table attach to their parent
NestedKinds(nl, t) ==
  (IF nl = <<>> \/ Len(nl[1]) = 0 THEN <<>>
   ELSE IF Len(nl[1]) = 1 THEN <<"table">> ELSE <<"join">>)
  \o (IF t = <<>> THEN <<>> ELSE <<"table">>)

\* the kinds of the nodes with an edge to id, in the order of the edge list
ProducerKinds(id) ==
  LET Feeds(e) == e.target = id
      feeding  == SelectSeq(edges, Feeds)
  IN  [k \in 1..Len(feeding) |-> NodeOf(feeding[k].source).type]

\* the ids of the buffer nodes with an edge to id
BuffersOf(id) == {p \in Producers(id) : NodeOf(p).type = "buffer"}

C22_GroupStage ==
  (Returned /\ Top.ordering_operation = <<>> /\ Top.grouping_operation # <<>>) =>
    LET g == Top.grouping_operation[1]
        G == planNodes[1]
    IN  /\ G.type = "group"
        /\ G.label = "GROUP BY"
        /\ G.extra = (IF g.using_filesort THEN <<"Using filesort">> ELSE <<>>)
                      \o (IF g.using_temporary_table
                          THEN <<"Using temporary table">> ELSE <<>>)
        /\ Consumers(G.id) = {}
        /\ ProducerKinds(G.id) =
             NestedKinds(g.nested_loop, g.table)
             \o (IF g.buffer_result = <<>> THEN <<>> ELSE <<"buffer">>)
        /\ \A i \in 2..Len(planNodes) : Cardinality(Consumers(planNodes[i].id)) = 1
        /\ g.buffer_result # <<>> =>
             \A b \in BuffersOf(G.id) :
               ProducerKinds(b) =
                 NestedKinds(g.buffer_result[1].nested_loop,
                             g.buffer_result[1].table)

\* a group stage over a table and a buffer that holds a join list and a table
C22_Witness ==
  /\ Returned
  /\ Top.ordering_operation = <<>> /\ Top.grouping_operation # <<>>
  /\ Top.grouping_operation[1].table # <<>>
  /\ Top.grouping_operation[1].buffer_result # <<>>
  /\ Top.grouping_operation[1].buffer_result[1].nested_loop # <<>>
  /\ Top.grouping_operation[1].buffer_result[1].table # <<>>
  /\ ProducerKinds(planNodes[1].id) = <<"table", "buffer">>
  /\ \E b \in BuffersOf(planNodes[1].id) : ProducerKinds(b) = <<"join", "table">>

(***************************************************************************)
(* C23  A join list with exactly one table entry emits no join node: the   *)
(* table becomes a table node attached to the outer attachment point (one  *)
(* edge to it when there is one, no edge at the top level); a join list    *)
(* with no entry emits no node at all.                                     *)
(***************************************************************************)
NoJoinNode == \A i \in 1..Len(planNodes) : planNodes[i].type # "join"

\* the stage of the top level that nests a join list and no further stage
\* (<<>> when the level has none)
JoinListStage ==
  IF Top.ordering_operation # <<>>
  THEN (IF Top.ordering_operation[1].grouping_operation = <<>>
        THEN Top.ordering_operation ELSE <<>>)
  ELSE IF Top.grouping_operation # <<>>
  THEN (IF Top.grouping_operation[1].buffer_result = <<>>
        THEN Top.grouping_operation ELSE <<>>)
  ELSE Top.duplicates_removal

C23_ShortJoinLists ==
  \* at the top level: no attachment point
  /\ (Returned /\ OnlyJoin(Top) /\ Len(Top.nested_loop[1]) = 1) =>
       /\ NoJoinNode
       /\ planNodes[1].type = "table"
       /\ planNodes[1].table = Top.nested_loop[1][1].table.table_name
       /\ Consumers(planNodes[1].id) = {}
       /\ NoMaterialized(Top.nested_loop[1][1].table) =>
            (Len(planNodes) = 1 /\ edges = <<>>)
  /\ (Returned /\ OnlyJoin(Top) /\ Len(Top.nested_loop[1]) = 0) =>
       /\ \A i \in 1..Len(planNodes) : planNodes[i].type = "select"
       /\ edges = <<>>
       /\ Top.message = <<>> => planNodes = <<>>
  \* below a stage: the stage's node is the attachment point
  /\ (Returned /\ JoinListStage # <<>> /\ JoinListStage[1].nested_loop # <<>>
        /\ Len(JoinListStage[1].nested_loop[1]) = 1) =>
       /\ NoJoinNode
       /\ planNodes[2].type = "table"
       /\ planNodes[2].table = JoinListStage[1].nested_loop[1][1].table.table_name
       /\ Consumers(planNodes[2].id) = {planNodes[1].id}
  /\ (Returned /\ JoinListStage # <<>> /\ JoinListStage[1].nested_loop # <<>>
        /\ Len(JoinListStage[1].nested_loop[1]) = 0) =>
       /\ NoJoinNode
       /\ ProducerKinds(planNodes[1].id) =
            NestedKinds(<<>>, JoinListStage[1].table)

\* a duplicate-removal stage over a join list of one table
C23_Witness ==
  /\ Returned
  /\ Top.duplicates_removal # <<>> /\ JoinListStage = Top.duplicates_removal
  /\ JoinListStage[1].nested_loop # <<>>
  /\ Len(JoinListStage[1].nested_loop[1]) = 1
  /\ JoinListStage[1].table = <<>>
  /\ Len(planNodes) = 2
  /\ Len(edges) = 1
  /\ planNodes[2].type = "table"

(***************************************************************************)
(* C24  After layout every node that has producers is horizontally         *)
(* centered over the span reserved for them: its center, x + nodeWidth/2,  *)
(* is the midpoint of the span from the left edge of its first producer's  *)
(* subtree span to the right edge of its last producer's subtree span, and *)
(* consecutive producers' subtree spans are exactly horizontalGap apart.   *)
(***************************************************************************)
\* the ids of the nodes with an edge to id, in the order of the edge list
ProducerSeq(id) ==
  LET Feeds(e) == e.target = id
      feeding  == SelectSeq(edges, Feeds)
  IN  [k \in 1..Len(feeding) |-> feeding[k].source]

\* the width a node's subtree needs: nodeWidth for a leaf, else the widths of
\* the producers' subtrees with a gap between neighbours, at least nodeWidth
RECURSIVE SpanWidth(_)
RECURSIVE SpanWidthSum(_, _)
SpanWidthSum(ids, n) ==
  IF n = 0 THEN 0 - horizontalGap
  ELSE SpanWidthSum(ids, n - 1) + SpanWidth(ids[n]) + horizontalGap

SpanWidth(id) ==
  IF Producers(id) = {} THEN nodeWidth
  ELSE IF SpanWidthSum(ProducerSeq(id), Len(ProducerSeq(id))) > nodeWidth
  THEN SpanWidthSum(ProducerSeq(id), Len(ProducerSeq(id)))
  ELSE nodeWidth

\* twice the x of the centre of a node (kept doubled to stay in the integers)
Centre2(id) == 2 * FlowNodeOf(id).position.x + nodeWidth

SpanLeft2(id) == Centre2(id) - SpanWidth(id)

SpanRight2(id) == Centre2(id) + SpanWidth(id)

C24_CentredOverProducers ==
  Returned =>
    \A i \in 1..Len(planNodes) :
      LET id == planNodes[i].id
          ps == ProducerSeq(id)
      IN  Len(ps) > 0 =>
            /\ 2 * Centre2(id) = SpanLeft2(ps[1]) + SpanRight2(ps[Len(ps)])
            /\ \A k \in 1..(Len(ps) - 1) :
                 SpanLeft2(ps[k + 1]) = SpanRight2(ps[k]) + 2 * horizontalGap

\* a join of three inputs one of which has a producer of its own
C24_Witness ==
  /\ Returned
  /\ Len(planNodes) >= 5
  /\ planNodes[1].type = "join"
  /\ Len(ProducerSeq(planNodes[1].id)) = 3
  /\ \E k \in 1..3 : Producers(ProducerSeq(planNodes[1].id)[k]) # {}
  /\ SpanWidth(planNodes[1].id) = 3 * nodeWidth + 2 * horizontalGap

(***************************************************************************)
(* C25  The claim: from the chosen root the critical-path walk moves, at   *)
(* every marked node, to the child with the greatest cumulative cost (own  *)
(* cost plus the greatest cumulative cost among its children), the first   *)
(* such child in children order on ties, and it stops only at a leaf: the  *)
(* last marked node has no producers (no edge targets it).                 *)
(***************************************************************************)
\* own cost plus the greatest cumulative cost among the children list
ChildCumulativeCost(id) == calculateCumulativeCost(planNodes, id)

AllCostsNumeric == \A i \in 1..Len(planNodes) : ~planNodes[i].cost.nan

\* the marked nodes in the order of the node list, which is the order the
\* walk marks them in (children lists name later nodes only)
MarkedSeq ==
  LET IsMarked(n) == n.isCriticalPath
  IN  SelectSeq(planNodes, IsMarked)

\* next is the first entry of node's children list with the greatest
\* cumulative cost
FirstGreatestChild(node, next) ==
  \E k \in 1..Len(node.children) :
    /\ node.children[k] = next
    /\ \A j \in 1..Len(node.children) :
         /\ ChildCumulativeCost(node.children[j]).v
              <= ChildCumulativeCost(next).v
         /\ j < k => ChildCumulativeCost(node.children[j]).v
                       < ChildCumulativeCost(next).v

\* the walk's steps
C25_WalkStep ==
  (Returned /\ AllCostsNumeric) =>
    /\ \A i \in 1..(Len(MarkedSeq) - 1) :
         FirstGreatestChild(MarkedSeq[i], MarkedSeq[i + 1].id)
    /\ Len(MarkedSeq) > 0 => MarkedSeq[Len(MarkedSeq)].children = <<>>

\* where the walk stops
C25_StopsAtLeaf ==
  (Returned /\ Len(MarkedSeq) > 0) =>
    Producers(MarkedSeq[Len(MarkedSeq)].id) = {}

Discovered(id) == FindIndex(planNodes, id)

OutgoingEdges(id) == {e \in 1..Len(edges) : edges[e].source = id}

C26_Acyclic ==
  Returned =>
    /\ \A e \in 1..Len(edges) :
         /\ Discovered(edges[e].source) > 0
         /\ Discovered(edges[e].target) > 0
         /\ Discovered(edges[e].target) < Discovered(edges[e].source)
    /\ \A i \in 1..Len(planNodes) :
         /\ Cardinality(OutgoingEdges(planNodes[i].id)) <= 1
         /\ \A k \in 1..Len(planNodes[i].children) :
              Discovered(planNodes[i].children[k]) > i

\* a union whose branches are a join and a sort over a table: three levels
C26_Witness ==
  /\ Returned
  /\ Len(planNodes) > 0
  /\ planNodes[1].type = "union"
  /\ Len(edges) >= 5
  /\ \E e \in 1..Len(edges) :
       /\ Discovered(edges[e].target) > 1
       /\ Discovered(edges[e].source) = Len(planNodes)
  /\ \E i \in 1..Len(planNodes) : Len(planNodes[i].children) >= 2

(***************************************************************************)
(* C27  nodeIdCounter is one module-level variable reset at the start of   *)
(* each parseExplainJSON call.  An invocation into whose run no step of    *)
(* another invocation falls (invocations one at a time) returns the        *)
(* pairwise distinct ids node-1..node-N; with steps interleaved, another   *)
(* invocation's reset can make a result hold the same id twice.            *)
(***************************************************************************)
IdsOneToN(ids) == \A i \in 1..Len(ids) : ids[i] = NodeId(i)

HasCollision(ids) == \E i, j \in 1..Len(ids) : i # j /\ ids[i] = ids[j]

C27_SerializedIdsDistinct ==
  calls # <<>> =>
    \A p \in Invocations :
      (calls[p].phase = "done" /\ ~calls[p].interfered) =>
        /\ Len(calls[p].ids) = calls[p].need
        /\ IdsOneToN(calls[p].ids)
        /\ ~HasCollision(calls[p].ids)

\* the first invocation ran with no step of the second in between and has
\* node-1; the second was reset under, and holds node-2 twice
C27_Witness ==
  /\ calls # <<>>
  /\ calls["first"].phase = "done" /\ ~calls["first"].interfered
  /\ calls["first"].ids = <<NodeId(1)>>
  /\ calls["second"].phase = "done" /\ calls["second"].interfered
  /\ calls["second"].ids = <<NodeId(1), NodeId(2), NodeId(2)>>
  /\ HasCollision(calls["second"].ids)

(***************************************************************************)
(* C28  For every graph the parser produces, the layout traversal started  *)
(* from the nodes without an outgoing edge reaches every node, so no node  *)
(* is placed by the orphan fallback; every node's y is the number of edge  *)
(* hops to its root times the row step nodeHeight + verticalGap = 200,     *)
(* with the roots at y = 0.                                                *)
(***************************************************************************)
\* the number of edge hops from a node to the root of its tree
RECURSIVE Hops(_)
Hops(id) ==
  IF Consumers(id) = {} THEN 0
  ELSE 1 + Hops(CHOOSE c \in Consumers(id) : TRUE)

\* the ids in the Set positioned when the loop over the roots has ended
ReachedFromRoots ==
  positionRoots(LayoutOf(flowNodes, edges, LayoutRoots(flowNodes, edges)),
                LayoutStart, LayoutRoots(flowNodes, edges), 1).positioned

C28_NoOrphans ==
  Returned =>
    /\ ReachedFromRoots = NodeIds
    /\ \A i \in 1..Len(flowNodes) :
         flowNodes[i].position.y =
           Hops(flowNodes[i].id) * (nodeHeight + verticalGap)

\* two roots, the second with a tree of two hops below it
C28_Witness ==
  /\ Returned
  /\ Cardinality(EdgeRoots) >= 2
  /\ \E i \in 1..Len(flowNodes) :
       /\ Hops(flowNodes[i].id) = 2
       /\ flowNodes[i].position.y = 400
       /\ flowNodes[i].position.x > nodeWidth

(***************************************************************************)
(* C29  For every node of every parse result, each id in its children list *)
(* is the id of a node that feeds it directly or transitively: following   *)
(* the outgoing edges from the listed node reaches this node in one or     *)
(* more hops.                                                              *)
(***************************************************************************)
\* the nodes reached from id by following outgoing edges, one or more hops
RECURSIVE Downstream(_)
Downstream(id) ==
  IF Consumers(id) = {} THEN {}
  ELSE Consumers(id) \cup UNION {Downstream(c) : c \in Consumers(id)}

C29_ChildrenFeedTheNode ==
  Returned =>
    \A i \in 1..Len(planNodes) :
      \A k \in 1..Len(planNodes[i].children) :
        /\ planNodes[i].children[k] \in NodeIds
        /\ planNodes[i].id \in Downstream(planNodes[i].children[k])

\* a join whose children list names a node that feeds it through a table
C29_Witness ==
  /\ Returned
  /\ \E i \in 1..Len(planNodes) :
       /\ planNodes[i].type = "join"
       /\ \E k \in 1..Len(planNodes[i].children) :
            /\ planNodes[i].children[k] \notin Producers(planNodes[i].id)
            /\ planNodes[i].id \in Downstream(planNodes[i].children[k])

(***************************************************************************)
(* C30  In the input form, after any sequence of text edits, demo loads    *)
(* and clipboard pastes (resolved or rejected, in any order relative to    *)
(* the edits), isValid is true exactly when the current input text is      *)
(* non-blank and passes validateExplainJSON, and onVisualize is called     *)
(* only with the data validateExplainJSON accepted for the input of that   *)
(* moment: a record with a query_block.                                    *)
(***************************************************************************)
C30_IsValidIffInputValid ==
  /\ isValid <=> (Trim(input) # <<>> /\ validateExplainJSON(input).valid)
  /\ visualized # <<>> =>
       LET accepted == validateExplainJSON(visualized[1].input)
           data == visualized[1].data
       IN  /\ Trim(visualized[1].input) # <<>>
           /\ accepted.valid
           /\ accepted.data = <<data>>
           /\ data.t = "object"
           /\ \E k \in 1..Len(data.keys) : data.keys[k] = "query_block"

\* the demo was loaded and visualized, then a paste failed: the message
\* of the failure stands under a text that is still valid
C30_Witness ==
  /\ input = Stringify(demoExplainJSON)
  /\ isValid
  /\ error = <<"Failed to read clipboard">>
  /\ visualized # <<>>
  /\ visualized[1].data = demoExplainJSON
  /\ pending = 1

====
